---------------------------- MODULE Spec2Model ----------------------------
(***************************************************************************)
(* Arimann Bid Command Center: the Bids sheet, the scheduled sync          *)
(* pipeline of Full_Google_AppsScript.gs (syncAll, driveOnly,              *)
(* calendarOnly), the web API that edits rows (updateBidStatus_,           *)
(* updateBidById) and the pure helpers they use (applyAutoStatus_,         *)
(* computeHash_).                                                          *)
(*                                                                         *)
(* Cell values.  Text cells are strings, "" being the empty cell.  Date    *)
(* cells are integers: 0 is the empty cell, a negative number a cell that  *)
(* holds text that is no date, a positive number a Date in milliseconds.   *)
(* Drive refs and calendar event ids are integers: 0 is the empty cell, a  *)
(* negative number a link a user typed in, n > 0 the n-th object the       *)
(* pipeline created for that row and column.  A fingerprint is the tuple   *)
(* of the serialized fields (SHA-256 taken as injective), <<>> being the   *)
(* empty cell.                                                             *)
(***************************************************************************)
EXTENDS Integers, Sequences, FiniteSets, TLC

VARIABLES
    sheet,      \* the Bids sheet below its header: a sequence of rows
    settings,   \* the Settings sheet: the flags the passes read
    pc,         \* "idle", or "done" when a pass has written and not yet returned
    ctx,        \* the pass that has not yet returned: what it read and what it did
    made,       \* external world: objects ever created, per kind and sheet row
    calendar,   \* external world: the calendar events that exist, <<kind, row, n>>
    passes,     \* passes started so far (counted where a specification bounds them)
    probe,      \* the pure-function specifications: input, position and outputs
    staging,    \* the COMMBUYS staging sheet below its header: a sequence of rows
    listing     \* external world: what COMMBUYS returns for each keyword

vars == <<sheet, settings, pc, ctx, made, calendar, passes, probe, staging, listing>>

---------------------------------------------------------------------------
(* Bounds of the model *)

\* rows of the sheet, in the specification of a sheet of several bids
MaxRows == 2
\* passes, in the specification of a sheet of several bids
MaxPasses == 2
\* objects of one kind created for one row: no pass starts once it is reached
MaxMade == 2
MaxSeq == 3

---------------------------------------------------------------------------
(* Constants of the program *)

\* LOCKED_STATUSES
LOCKED_STATUSES == {"Won", "Lost", "No Bid", "On Hold"}

\* the statuses of the Apps Script pipeline and of the dashboard of part_008
LegacyStatuses ==
    {"Open", "Walkthrough Scheduled", "In Progress", "Submitted",
     "Won", "Lost", "No Bid", "On Hold"}

\* the statuses normalizeStatus of sheets.js allows
NewStatuses == {"New", "Reviewing", "Submitted", "Won", "Lost", "Archived"}

AllStatuses == LegacyStatuses \cup NewStatuses

\* the mark syncAll writes in column U
CheckMark == "checked"

\* "yyyy-MM-dd'T'HH:mm:ss": fmtISO_ prints whole seconds
MsPerSecond == 1000

---------------------------------------------------------------------------
(* Utilities *)

\* String.prototype.trim on the strings of the model: the padded ones lose
\* their blanks, every other string has none
PaddedStrings == {" Open", "Won ", "Archived "}

\* a COMMBUYS link with a blank after it
PaddedUrls == {"url-b "}

Trim(s) ==
    CASE s = " Open" -> "Open"
      [] s = "Won " -> "Won"
      [] s = "Archived " -> "Archived"
      [] s = "url-b " -> "url-b"
      [] OTHER -> s

\* str_(v) == String(v || "").trim()
str_(v) == Trim(v)

\* isValidDate_(d): d instanceof Date && !isNaN(d.getTime())
isValidDate_(d) == d > 0

\* fmtISO_(ctx, d): the date printed to the second, "" (here 0) for a non-date
fmtISO_(d) == IF isValidDate_(d) THEN d \div MsPerSecond + 1 ELSE 0

\* Boolean(x) of a ref or id cell
Truthy(x) == x # 0

---------------------------------------------------------------------------
(* AUTO STATUS TRANSITIONS *)

\* the same rules with the walkthrough rule tried before the draft rule
applyAutoStatus_WalkFirst(bid) ==
    LET current  == Trim(bid.status)
        hasWalk  == isValidDate_(bid.walkDateTime)
        hasDraft == Truthy(bid.draftUrl)
        hasFinal == Truthy(bid.finalUrl)
    IN  IF current \in LOCKED_STATUSES THEN bid
        ELSE IF hasFinal THEN [bid EXCEPT !.status = "Submitted"]
        ELSE IF hasWalk /\ current = "Open"
            THEN [bid EXCEPT !.status = "Walkthrough Scheduled"]
        ELSE IF hasDraft /\ current \in {"Open", "Walkthrough Scheduled"}
            THEN [bid EXCEPT !.status = "In Progress"]
        ELSE bid

\* the same rules without the locked check
applyAutoStatus_NoLock(bid) ==
    LET current  == Trim(bid.status)
        hasWalk  == isValidDate_(bid.walkDateTime)
        hasDraft == Truthy(bid.draftUrl)
        hasFinal == Truthy(bid.finalUrl)
    IN  IF hasFinal THEN [bid EXCEPT !.status = "Submitted"]
        ELSE IF hasDraft /\ current \in {"Open", "Walkthrough Scheduled"}
            THEN [bid EXCEPT !.status = "In Progress"]
        ELSE IF hasWalk /\ current = "Open"
            THEN [bid EXCEPT !.status = "Walkthrough Scheduled"]
        ELSE bid

\* the same rules with the draft rule applying to any non-locked status
applyAutoStatus_DraftAny(bid) ==
    LET current  == Trim(bid.status)
        hasWalk  == isValidDate_(bid.walkDateTime)
        hasDraft == Truthy(bid.draftUrl)
        hasFinal == Truthy(bid.finalUrl)
    IN  IF current \in LOCKED_STATUSES THEN bid
        ELSE IF hasFinal THEN [bid EXCEPT !.status = "Submitted"]
        ELSE IF hasDraft THEN [bid EXCEPT !.status = "In Progress"]
        ELSE IF hasWalk /\ current = "Open"
            THEN [bid EXCEPT !.status = "Walkthrough Scheduled"]
        ELSE bid

\* applyAutoStatus_(bid): the bid after the call
applyAutoStatus_(bid) ==
    LET current  == Trim(bid.status)
        hasWalk  == isValidDate_(bid.walkDateTime)
        hasDraft == Truthy(bid.draftUrl)
        hasFinal == Truthy(bid.finalUrl)
    IN  IF current \in LOCKED_STATUSES THEN bid
        ELSE IF hasFinal THEN [bid EXCEPT !.status = "Submitted"]
        ELSE IF hasDraft /\ current \in {"Open", "Walkthrough Scheduled"}
            THEN [bid EXCEPT !.status = "In Progress"]
        ELSE IF hasWalk /\ current = "Open"
            THEN [bid EXCEPT !.status = "Walkthrough Scheduled"]
        ELSE bid

---------------------------------------------------------------------------
(* ROW READ / WRITE *)

\* the 21 columns A-U of the Bids sheet (COL)
Columns ==
    {"bidId", "bidName", "client", "postingUrl", "dueDate", "walkDateTime",
     "walkLocation", "ownerName", "ownerEmail", "status", "rfpSource",
     "rfpAttachYN", "driveFolderUrl", "rfpInFolderUrl", "draftUrl", "finalUrl",
     "notes", "dueEventId", "walkEventId", "lastHash", "notified"}

\* new Array(TOTAL_COLS).fill(""): a row of empty cells
EmptyRow ==
    [bidId |-> "", bidName |-> "", client |-> "", postingUrl |-> "",
     dueDate |-> 0, walkDateTime |-> 0, walkLocation |-> "", ownerName |-> "",
     ownerEmail |-> "", status |-> "", rfpSource |-> "", rfpAttachYN |-> "",
     driveFolderUrl |-> 0, rfpInFolderUrl |-> 0, draftUrl |-> 0, finalUrl |-> 0,
     notes |-> "", dueEventId |-> 0, walkEventId |-> 0, lastHash |-> <<>>,
     notified |-> ""]

\* String.prototype.toUpperCase on the values of column L
ToUpper(s) == IF s = "y" THEN "Y" ELSE IF s = "n" THEN "N" ELSE s

\* isRowBlank_(row): every cell is empty
isRowBlank_(row) == row = EmptyRow

\* readBidRow_(row): text cells through str_, the two date cells as they are
readBidRow_(row) ==
    [row EXCEPT !.bidId = str_(@), !.bidName = str_(@), !.client = str_(@),
                !.postingUrl = str_(@), !.walkLocation = str_(@),
                !.ownerName = str_(@), !.ownerEmail = str_(@),
                !.status = str_(@), !.rfpSource = str_(@),
                !.rfpAttachYN = ToUpper(str_(@)), !.notes = str_(@),
                !.notified = str_(@)]

\* one row of batchWriteBack_: columns M-P, J and R-U of the row are set from
\* the bid, every other cell of the row is left as it is
WriteBackRow(row, b) ==
    [row EXCEPT !.driveFolderUrl = b.driveFolderUrl,
                !.rfpInFolderUrl = b.rfpInFolderUrl,
                !.draftUrl = b.draftUrl, !.finalUrl = b.finalUrl,
                !.status = b.status,
                !.dueEventId = b.dueEventId, !.walkEventId = b.walkEventId,
                !.lastHash = b.lastHash, !.notified = b.notified]

\* batchWriteBack_(sheet, updates): every update written to its row
batchWriteBack_(sh, updates) ==
    [i \in 1..Len(sh) |->
        IF \E k \in 1..Len(updates) : updates[k].rowIdx = i
        THEN WriteBackRow(sh[i],
                 updates[CHOOSE k \in 1..Len(updates) : updates[k].rowIdx = i].bid)
        ELSE sh[i]]

---------------------------------------------------------------------------
(* CHANGE DETECTION *)

\* the digest taken over the stored fingerprint as well
computeHash_WithLastHash(bid) ==
    <<bid.bidId, bid.bidName, bid.client, bid.postingUrl,
      fmtISO_(bid.dueDate), fmtISO_(bid.walkDateTime), bid.walkLocation,
      bid.ownerName, bid.ownerEmail, bid.status, bid.driveFolderUrl,
      bid.rfpSource, bid.rfpInFolderUrl, bid.draftUrl, bid.finalUrl, bid.notes,
      bid.lastHash>>

\* computeHash_(bid, ctx): the digest of the JSON text of these 16 fields,
\* the two dates printed by fmtISO_
computeHash_(bid) ==
    <<bid.bidId, bid.bidName, bid.client, bid.postingUrl,
      fmtISO_(bid.dueDate), fmtISO_(bid.walkDateTime), bid.walkLocation,
      bid.ownerName, bid.ownerEmail, bid.status, bid.driveFolderUrl,
      bid.rfpSource, bid.rfpInFolderUrl, bid.draftUrl, bid.finalUrl, bid.notes>>

---------------------------------------------------------------------------
(* DRIVE: FOLDERS, RFP ATTACH, DOC PLACEHOLDERS; CALENDAR *)
(* A step takes and returns the state of one row's processing:             *)
(*   bid       the in-memory bid                                           *)
(*   made      the objects created so far, per kind and row                *)
(*   calendar  the events that exist                                       *)
(*   threw     an exception was raised: the rest of the row is not run     *)
(*   calOps    the calendar operations performed for the row               *)
(* r is the row, fail the external call that raises when it is attempted.  *)

Kinds == {"folder", "rfp", "draft", "final", "due", "walk"}

FailPoints == {"none", "folder", "rfp", "draft", "final", "due", "walk"}

Throw(e) == [e EXCEPT !.threw = TRUE]

\* ensureBidFolder_(ctx, bid)
ensureBidFolder_(e, r, fail) ==
    IF e.threw \/ Truthy(e.bid.driveFolderUrl) THEN e
    ELSE IF fail = "folder" THEN Throw(e)
    ELSE [e EXCEPT !.bid.driveFolderUrl = e.made["folder"][r] + 1,
                   !.made["folder"][r] = @ + 1]

\* attachRfpIfRequested_(ctx, bid): MOVE puts the source file itself in the
\* folder (its ref is the source's, -1), COPY makes a new file
attachRfpIfRequested_(e, r, stg, fail) ==
    IF e.threw \/ e.bid.rfpSource = "" \/ e.bid.rfpAttachYN # "Y"
       \/ ~Truthy(e.bid.driveFolderUrl) \/ Truthy(e.bid.rfpInFolderUrl) THEN e
    ELSE IF fail = "rfp" THEN Throw(e)
    ELSE IF stg.RFP_ACTION = "MOVE"
        THEN [e EXCEPT !.bid.rfpInFolderUrl = -1]
        ELSE [e EXCEPT !.bid.rfpInFolderUrl = e.made["rfp"][r] + 1,
                       !.made["rfp"][r] = @ + 1]

\* the draft half of ensureDocPlaceholders_
EnsureDraft(e, r, fail) ==
    IF e.threw \/ Truthy(e.bid.draftUrl) THEN e
    ELSE IF fail = "draft" THEN Throw(e)
    ELSE [e EXCEPT !.bid.draftUrl = e.made["draft"][r] + 1,
                   !.made["draft"][r] = @ + 1]

\* the final half of ensureDocPlaceholders_
EnsureFinal(e, r, fail) ==
    IF e.threw \/ Truthy(e.bid.finalUrl) THEN e
    ELSE IF fail = "final" THEN Throw(e)
    ELSE [e EXCEPT !.bid.finalUrl = e.made["final"][r] + 1,
                   !.made["final"][r] = @ + 1]

\* ensureDocPlaceholders_(ctx, bid)
ensureDocPlaceholders_(e, r, fail) ==
    IF e.threw \/ ~Truthy(e.bid.driveFolderUrl) THEN e
    ELSE EnsureFinal(EnsureDraft(e, r, fail), r, fail)

\* safeGetEvent_(calendar, id): whether the event is found
safeGetEvent_(cal, kind, r, id) == Truthy(id) /\ <<kind, r, id>> \in cal

\* the upsert that never looks the event up and always creates one
UpsertEvent_AlwaysCreate(e, kind, field, r, fail) ==
    IF e.threw THEN e
    ELSE IF fail = kind THEN Throw(e)
    ELSE [e EXCEPT !.bid[field] = e.made[kind][r] + 1,
                   !.made[kind][r] = e.made[kind][r] + 1,
                   !.calendar = @ \cup {<<kind, r, e.made[kind][r] + 1>>},
                   !.calOps = @ \cup {<<kind, "create">>}]

\* upsertAllDay_ and upsertTimed_: the event of this id is updated and its id
\* returned, or a new event is created and its id returned
UpsertEvent(e, kind, field, r, fail) ==
    IF e.threw THEN e
    ELSE IF fail = kind THEN Throw(e)
    ELSE IF safeGetEvent_(e.calendar, kind, r, e.bid[field])
        THEN [e EXCEPT !.calOps = @ \cup {<<kind, "update">>}]
        ELSE LET id == e.made[kind][r] + 1
             IN  [e EXCEPT !.bid[field] = id,
                           !.made[kind][r] = id,
                           !.calendar = @ \cup {<<kind, r, id>>},
                           !.calOps = @ \cup {<<kind, "create">>}]

\* the call of upsertCalendar_ is recorded
EnterCalendar(e) == IF e.threw THEN e ELSE [e EXCEPT !.calCalled = TRUE]

\* "if (isValidDate_(bid.dueDate)) { ... upsertAllDay_ ... }"
DueEvent(e, r, fail) ==
    IF isValidDate_(e.bid.dueDate)
    THEN UpsertEvent(e, "due", "dueEventId", r, fail) ELSE e

\* "if (isValidDate_(bid.walkDateTime)) { ... upsertTimed_ ... }"
WalkEvent(e, r, fail) ==
    IF isValidDate_(e.bid.walkDateTime)
    THEN UpsertEvent(e, "walk", "walkEventId", r, fail) ELSE e

\* upsertCalendar_(ctx, bid)
upsertCalendar_(e, r, fail) ==
    WalkEvent(DueEvent(EnterCalendar(e), r, fail), r, fail)

---------------------------------------------------------------------------
(* SETTINGS *)

Flag == {"TRUE", "FALSE"}

\* readSettings_: the flags the passes read, each TRUE or FALSE in the
\* Settings sheet (the code's defaults are one of the combinations)
SettingsSpace ==
    [AUTO_CREATE_DRIVE_FOLDER : Flag, AUTO_ATTACH_RFP : Flag,
     AUTO_CREATE_DOCS : Flag, NOTIFY_ON_NEW_BID : Flag,
     NOTIFY_ON_UPDATES : Flag, RFP_ACTION : {"COPY"},
     COMMBUYS_ENABLED : Flag, COMMBUYS_AUTO_IMPORT : Flag]

\* the combinations the specifications of the sync passes draw from: the
\* three Drive flags all TRUE or all FALSE, the two notification flags free,
\* COMMBUYS at its defaults
SettingsInputs ==
    {x \in SettingsSpace :
        /\ x.AUTO_CREATE_DRIVE_FOLDER = x.AUTO_ATTACH_RFP
        /\ x.AUTO_ATTACH_RFP = x.AUTO_CREATE_DOCS
        /\ x.COMMBUYS_ENABLED = "FALSE"
        /\ x.COMMBUYS_AUTO_IMPORT = "FALSE"}

\* the defaults of readSettings_
DefaultSettings ==
    [AUTO_CREATE_DRIVE_FOLDER |-> "TRUE", AUTO_ATTACH_RFP |-> "TRUE",
     AUTO_CREATE_DOCS |-> "TRUE", NOTIFY_ON_NEW_BID |-> "TRUE",
     NOTIFY_ON_UPDATES |-> "FALSE", RFP_ACTION |-> "COPY",
     COMMBUYS_ENABLED |-> "FALSE", COMMBUYS_AUTO_IMPORT |-> "FALSE"]

---------------------------------------------------------------------------
(* MAIN SYNC: one row of the loop *)

\* the row's processing before any step has run
StartRow(bid, m, cal) ==
    [bid |-> bid, made |-> m, calendar |-> cal, threw |-> FALSE,
     calCalled |-> FALSE, calOps |-> {}]

\* "if (!bid.bidId || !bid.bidName) continue" after the blank test
SkipsRow(row) ==
    isRowBlank_(row) \/ readBidRow_(row).bidId = "" \/ readBidRow_(row).bidName = ""

\* if (AUTO_CREATE_DRIVE_FOLDER === "TRUE") ensureBidFolder_(ctx, bid)
FolderStep(e, r, stg, fail) ==
    IF stg.AUTO_CREATE_DRIVE_FOLDER = "TRUE" THEN ensureBidFolder_(e, r, fail) ELSE e

\* if (AUTO_ATTACH_RFP === "TRUE") attachRfpIfRequested_(ctx, bid)
RfpStep(e, r, stg, fail) ==
    IF stg.AUTO_ATTACH_RFP = "TRUE" THEN attachRfpIfRequested_(e, r, stg, fail) ELSE e

\* if (AUTO_CREATE_DOCS === "TRUE") ensureDocPlaceholders_(ctx, bid)
DocsStep(e, r, stg, fail) ==
    IF stg.AUTO_CREATE_DOCS = "TRUE" THEN ensureDocPlaceholders_(e, r, fail) ELSE e

\* the three Drive steps, each under its setting
DriveSteps(e, r, stg, fail) ==
    DocsStep(RfpStep(FolderStep(e, r, stg, fail), r, stg, fail), r, stg, fail)

\* hadSync
HadSync(bid) ==
    Truthy(bid.dueEventId) \/ Truthy(bid.walkEventId) \/ bid.lastHash # <<>>

\* the calendar is upserted on the first sync of a row only
NeedsCalendar_FirstSync(hadSync, changed) == ~hadSync

\* the calendar is never upserted
NeedsCalendar_Never(hadSync, changed) == FALSE

\* the calendar is upserted on every pass
NeedsCalendar_Always(hadSync, changed) == TRUE

\* "if (!hadSync || changed)": the gate of upsertCalendar_
NeedsCalendar(hadSync, changed) == ~hadSync \/ changed

\* the new-bid branch does not look at the notified mark
NotificationDecision_IgnoreMark(bid, changed, stg) ==
    LET alreadyNotified == bid.notified = CheckMark
        hasEvent == Truthy(bid.dueEventId) \/ Truthy(bid.walkEventId)
    IN  [new |-> hasEvent /\ stg.NOTIFY_ON_NEW_BID = "TRUE",
         upd |-> ~hasEvent /\ alreadyNotified /\ changed
                 /\ stg.NOTIFY_ON_UPDATES = "TRUE"]

\* the update branch is an "if" of its own that reads the flag the new-bid
\* branch has just set
NotificationDecision_TwoIfs(bid, changed, stg) ==
    LET alreadyNotified == bid.notified = CheckMark
        hasEvent == Truthy(bid.dueEventId) \/ Truthy(bid.walkEventId)
        isNew == ~alreadyNotified /\ hasEvent /\ stg.NOTIFY_ON_NEW_BID = "TRUE"
    IN  [new |-> isNew,
         upd |-> (alreadyNotified \/ isNew) /\ changed
                 /\ stg.NOTIFY_ON_UPDATES = "TRUE"]

\* the new-bid branch ignores NOTIFY_ON_NEW_BID
NotificationDecision_NoFlag(bid, changed, stg) ==
    LET alreadyNotified == bid.notified = CheckMark
        hasEvent == Truthy(bid.dueEventId) \/ Truthy(bid.walkEventId)
    IN  [new |-> ~alreadyNotified /\ hasEvent,
         upd |-> ~(~alreadyNotified /\ hasEvent) /\ alreadyNotified /\ changed
                 /\ stg.NOTIFY_ON_UPDATES = "TRUE"]

\* the notification logic of syncAll: which of the two branches pushes the bid
NotificationDecision(bid, changed, stg) ==
    LET alreadyNotified == bid.notified = CheckMark
        hasEvent == Truthy(bid.dueEventId) \/ Truthy(bid.walkEventId)
    IN  [new |-> ~alreadyNotified /\ hasEvent /\ stg.NOTIFY_ON_NEW_BID = "TRUE",
         upd |-> ~(~alreadyNotified /\ hasEvent) /\ alreadyNotified /\ changed
                 /\ stg.NOTIFY_ON_UPDATES = "TRUE"]

\* every row counts as changed
Changed_Always(bid) == TRUE

\* changed: newHash !== (bid.lastHash || "")
Changed(bid) == computeHash_(bid) # bid.lastHash

\* "if (!hadSync || changed) upsertCalendar_(ctx, bid)", e being the row
\* after the Drive steps
CalendarStep(e, r, fail) ==
    IF ~e.threw /\ NeedsCalendar(HadSync(e.bid), Changed(e.bid))
    THEN upsertCalendar_(e, r, fail) ELSE e

\* the end of the loop body: the notification logic, bid.lastHash = newHash;
\* e3 is the row after the Drive steps, e4 after the calendar step, note the
\* decision of the notification logic
EndRow(e3, e4, note) ==
    [bid |-> [e4.bid EXCEPT !.notified = IF note.new THEN CheckMark ELSE @,
                            !.lastHash = computeHash_(e3.bid)],
     made |-> e4.made, calendar |-> e4.calendar,
     threw |-> e4.threw, reachedGate |-> ~e3.threw,
     hadSync |-> HadSync(e3.bid), changed |-> Changed(e3.bid),
     calCalled |-> e4.calCalled, calOps |-> e4.calOps,
     new |-> ~e4.threw /\ note.new, upd |-> ~e4.threw /\ note.upd]

\* the loop body from the change detection on
AfterCalendar(e3, e4, stg) ==
    EndRow(e3, e4, NotificationDecision(e4.bid, Changed(e3.bid), stg))

AfterDrive(e3, r, stg, fail) ==
    AfterCalendar(e3, CalendarStep(e3, r, fail), stg)

\* the body of syncAll's loop for a row that is not skipped
SyncAllRow(row, r, stg, fail, m, cal) ==
    AfterDrive(DriveSteps(StartRow(applyAutoStatus_(readBidRow_(row)), m, cal),
                          r, stg, fail),
               r, stg, fail)

\* the result of a loop body that has no change detection and no notification
PlainRow(e) ==
    [bid |-> e.bid, made |-> e.made, calendar |-> e.calendar,
     threw |-> e.threw, reachedGate |-> FALSE,
     hadSync |-> FALSE, changed |-> FALSE,
     calCalled |-> e.calCalled, calOps |-> e.calOps, new |-> FALSE, upd |-> FALSE]

\* the body of driveOnly's loop
DriveOnlyRow(row, r, stg, fail, m, cal) ==
    PlainRow(DriveSteps(StartRow(readBidRow_(row), m, cal), r, stg, fail))

\* the body of calendarOnly's loop
CalendarOnlyRow(row, r, stg, fail, m, cal) ==
    PlainRow(upsertCalendar_(StartRow(readBidRow_(row), m, cal), r, fail))

RowResult(mode, row, r, stg, fail, m, cal) ==
    CASE mode = "syncAll"      -> SyncAllRow(row, r, stg, fail, m, cal)
      [] mode = "driveOnly"    -> DriveOnlyRow(row, r, stg, fail, m, cal)
      [] mode = "calendarOnly" -> CalendarOnlyRow(row, r, stg, fail, m, cal)

---------------------------------------------------------------------------
(* The passes: syncAll, driveOnly, calendarOnly *)
(* A pass runs to completion.  ctx keeps what the pass read (values,       *)
(* settings) and what its loop did (updates, newBids, updatedBids and, per *)
(* row, a log entry) until the pass returns.                               *)

Modes == {"syncAll", "driveOnly", "calendarOnly"}

NoCtx ==
    [mode |-> "none", values |-> <<>>, settings |-> DefaultSettings,
     updates |-> <<>>, newBids |-> <<>>, updatedBids |-> <<>>, log |-> <<>>]

\* the loop's locals and the external world before the first row
StartLoop(m, cal) ==
    [made |-> m, calendar |-> cal, updates |-> <<>>, newBids |-> <<>>,
     updatedBids |-> <<>>, log |-> <<>>, stopped |-> FALSE]

\* the loop's locals after a row whose body gave res: updates.push when the
\* body ran to its end, the catch otherwise
TurnResult(st, r, res) ==
    [made |-> res.made,
     calendar |-> res.calendar,
     updates |-> IF res.threw THEN st.updates
                 ELSE Append(st.updates, [rowIdx |-> r, bid |-> res.bid]),
     newBids |-> IF res.new THEN Append(st.newBids, r) ELSE st.newBids,
     updatedBids |-> IF res.upd THEN Append(st.updatedBids, r)
                     ELSE st.updatedBids,
     log |-> Append(st.log,
         [outcome |-> IF res.threw THEN "threw" ELSE "written",
          reachedGate |-> res.reachedGate,
          hadSync |-> res.hadSync, changed |-> res.changed,
          calCalled |-> res.calCalled, calOps |-> res.calOps,
          new |-> res.new, upd |-> res.upd]),
     stopped |-> FALSE]

\* one turn of "for (let r = 1; ...) { try { ... } catch (err) { log } }"
LoopTurn(mode, values, stg, fails, r, st) ==
    IF SkipsRow(values[r])
    THEN [st EXCEPT !.log = Append(@, [outcome |-> "skipped"])]
    ELSE TurnResult(st, r, RowResult(mode, values[r], r, stg, fails[r],
                                     st.made, st.calendar))

\* the exception of row r leaves the loop
StopOnThrow(st, r) == [st EXCEPT !.stopped = st.log[r].outcome = "threw"]

\* the loop without the try/catch around a row: the first exception ends it
RECURSIVE Loop_NoCatch(_, _, _, _, _, _)
Loop_NoCatch(mode, values, stg, fails, r, st) ==
    IF r > Len(values) \/ st.stopped THEN st
    ELSE Loop_NoCatch(mode, values, stg, fails, r + 1,
             StopOnThrow(LoopTurn(mode, values, stg, fails, r, st), r))

\* the loop over rows r..Len(values)
RECURSIVE Loop(_, _, _, _, _, _)
Loop(mode, values, stg, fails, r, st) ==
    IF r > Len(values) THEN st
    ELSE Loop(mode, values, stg, fails, r + 1,
              LoopTurn(mode, values, stg, fails, r, st))

\* batchWriteBack_(ctx.sheet, updates), with what the loop did to the world
PassEffect(mode, st) ==
    /\ sheet' = batchWriteBack_(sheet, st.updates)
    /\ made' = st.made
    /\ calendar' = st.calendar
    /\ ctx' = [mode |-> mode, values |-> sheet, settings |-> settings,
               updates |-> st.updates, newBids |-> st.newBids,
               updatedBids |-> st.updatedBids, log |-> st.log]

\* syncAll(), driveOnly() or calendarOnly(): getContext_, the loop, then
\* batchWriteBack_
RunPass(mode, fails) ==
    /\ pc = "idle"
    /\ \A k \in Kinds : \A i \in 1..MaxRows : made[k][i] < MaxMade
    /\ PassEffect(mode, Loop(mode, sheet, settings, fails, 1,
                             StartLoop(made, calendar)))
    /\ pc' = "done"
    /\ UNCHANGED <<settings, probe, staging, listing>>

\* the pass returns
PassReturn ==
    /\ pc = "done"
    /\ pc' = "idle"
    /\ ctx' = NoCtx
    /\ UNCHANGED <<sheet, settings, made, calendar, passes, probe, staging, listing>>

\* for each row of the sheet, the external call that raises in this pass
FailChoices(points) == [1..Len(sheet) -> points]

---------------------------------------------------------------------------
(* COMMBUYS AUTO-DISCOVERY *)
(* A candidate is what parseCommbuysResults_ returns for a result row: its *)
(* title and its link.  listing[k] is the sequence of candidates returned  *)
(* for the k-th keyword.  A staging row keeps title, url and the imported  *)
(* mark of column I.                                                       *)

\* getExistingBidUrls_(ctx): the trimmed posting URLs of the Bids sheet
getExistingBidUrls_(values) ==
    {Trim(values[r].postingUrl) : r \in 1..Len(values)} \ {""}

\* getStagingUrls_(sheet): the trimmed URLs of the staging sheet
getStagingUrls_(stg) ==
    {Trim(stg[r].url) : r \in 1..Len(stg)} \ {""}

\* appendToStaging_(sheet, cb, keyword)
appendToStaging_(stg, cb) ==
    Append(stg, [title |-> cb.title, url |-> cb.url, imported |-> ""])

\* appendToBidsSheet_(ctx, cb), id being "CB-" + minute + "-" + 4 random
\* characters
appendToBidsSheet_(sh, cb, id) ==
    Append(sh, [EmptyRow EXCEPT !.bidId = id, !.bidName = cb.title,
                                !.postingUrl = cb.url, !.status = "Open",
                                !.notes = "Auto-discovered from COMMBUYS"])

\* the results of all keywords, in the order the poll meets them
RECURSIVE AllCandidates(_, _)
AllCandidates(lst, k) ==
    IF k > Len(lst) THEN <<>> ELSE lst[k] \o AllCandidates(lst, k + 1)

\* the body of the poll's inner loop: a known URL is skipped, another is
\* appended to the Bids sheet or to the staging sheet and becomes known
PollCandidate(st, cb, id, stg) ==
    IF cb.url \in st.seen THEN st
    ELSE IF stg.COMMBUYS_AUTO_IMPORT = "TRUE"
    THEN [st EXCEPT !.sheet = appendToBidsSheet_(@, cb, id),
                    !.seen = @ \cup {cb.url}]
    ELSE [st EXCEPT !.staging = appendToStaging_(@, cb),
                    !.seen = @ \cup {cb.url}]

\* the poll's loops over the candidates j..Len(cands)
RECURSIVE PollLoop(_, _, _, _, _)
PollLoop(cands, ids, stg, j, st) ==
    IF j > Len(cands) THEN st
    ELSE PollLoop(cands, ids, stg, j + 1,
                  PollCandidate(st, cands[j], ids[j], stg))

\* the sheets and the known URLs when the poll's loops start
StartPoll ==
    [sheet |-> sheet, staging |-> staging,
     seen |-> getExistingBidUrls_(sheet) \cup getStagingUrls_(staging)]

\* the sheets as the poll leaves them
PollEffect(st) ==
    /\ sheet' = st.sheet
    /\ staging' = st.staging

\* pollCommbuys(): nothing when COMMBUYS is disabled or no keyword is set
pollCommbuys(ids) ==
    /\ pc = "idle"
    /\ passes < MaxPasses
    /\ passes' = passes + 1
    /\ IF settings.COMMBUYS_ENABLED # "TRUE" \/ Len(listing) = 0
       THEN UNCHANGED <<sheet, staging>>
       ELSE PollEffect(PollLoop(AllCandidates(listing, 1), ids, settings, 1, StartPoll))
    /\ UNCHANGED <<settings, pc, ctx, made, calendar, probe, listing>>

\* the row of importSelectedCommbuys's loop is imported: not marked, and
\* with a title or a url
Importable(row) ==
    Trim(row.imported) # CheckMark /\ ~(row.title = "" /\ row.url = "")

\* the import without the test of the imported mark
ImportRow_IgnoreMark(st, r, id) ==
    IF st.staging[r].title = "" /\ st.staging[r].url = "" THEN st
    ELSE [sheet |-> appendToBidsSheet_(st.sheet, st.staging[r], id),
          staging |-> [st.staging EXCEPT ![r].imported = CheckMark]]

\* the body of importSelectedCommbuys's loop
ImportRow(st, r, id) ==
    IF ~Importable(st.staging[r]) THEN st
    ELSE [sheet |-> appendToBidsSheet_(st.sheet, st.staging[r], id),
          staging |-> [st.staging EXCEPT ![r].imported = CheckMark]]

\* importSelectedCommbuys's loop over the staging rows r..Len(staging)
RECURSIVE ImportLoop(_, _, _)
ImportLoop(ids, r, st) ==
    IF r > Len(st.staging) THEN st
    ELSE ImportLoop(ids, r + 1, ImportRow(st, r, ids[r]))

\* importSelectedCommbuys(): nothing when the staging sheet has no row
importSelectedCommbuys(ids) ==
    /\ pc = "idle"
    /\ Len(staging) > 0
    /\ PollEffect(ImportLoop(ids, 1, [sheet |-> sheet, staging |-> staging]))
    /\ UNCHANGED <<settings, pc, ctx, made, calendar, passes, probe, listing>>

---------------------------------------------------------------------------
(* GOOGLE FORM INTAKE *)

\* the inputs of the model: names, dates, RFP sources
FormNames == {"Janitorial", ""}
FormDates == {0, 5000}
FormRfpSources == {"", "rfp-file"}

\* the row onFormSubmit builds
FormRow(bidId, bidName, dueDate, walkDateTime, rfpSource) ==
    [EmptyRow EXCEPT !.bidId = bidId, !.bidName = bidName,
                     !.dueDate = dueDate, !.walkDateTime = walkDateTime,
                     !.status = "Open", !.rfpSource = rfpSource,
                     !.rfpAttachYN = "Y"]

\* onFormSubmit(e): a row with status Open is appended
onFormSubmit(bidId, bidName, dueDate, walkDateTime, rfpSource) ==
    /\ pc = "idle"
    /\ sheet' = Append(sheet, FormRow(bidId, bidName, dueDate, walkDateTime, rfpSource))
    /\ UNCHANGED <<settings, pc, ctx, made, calendar, passes, probe, staging, listing>>

---------------------------------------------------------------------------
(* WEB API, Apps Script side *)

\* the search that ends on the first row when no row has the id
FindRow_OrFirst(sh, bidId) ==
    IF \E i \in 1..Len(sh) : Trim(sh[i].bidId) = Trim(bidId)
    THEN CHOOSE i \in 1..Len(sh) :
            /\ Trim(sh[i].bidId) = Trim(bidId)
            /\ \A j \in 1..(i - 1) : Trim(sh[j].bidId) # Trim(bidId)
    ELSE IF Len(sh) > 0 THEN 1 ELSE 0

\* the first row whose trimmed id is the trimmed bidId, 0 when there is none
FindRow(sh, bidId) ==
    IF \E i \in 1..Len(sh) : Trim(sh[i].bidId) = Trim(bidId)
    THEN CHOOSE i \in 1..Len(sh) :
            /\ Trim(sh[i].bidId) = Trim(bidId)
            /\ \A j \in 1..(i - 1) : Trim(sh[j].bidId) # Trim(bidId)
    ELSE 0

\* the statuses a caller sends in the specifications: the locked ones, and
\* Open, from which the pipeline reaches the others
StatusInputs == LOCKED_STATUSES \cup {"Open"}

\* the value a call returns to its caller, kept in probe by the
\* specifications that start with a caller's probe
Returned(v) == IF probe = [op |-> "none"] THEN probe ELSE v

\* the value updateBidStatus_ returns
StatusResult(sh, bidId, newStatus) ==
    IF Trim(bidId) = ""
    THEN [op |-> "updateBidStatus_", bidId |-> bidId, error |-> "Bid ID is required"]
    ELSE IF Trim(newStatus) = ""
    THEN [op |-> "updateBidStatus_", bidId |-> bidId, error |-> "Status is required"]
    ELSE IF FindRow(sh, bidId) = 0
    THEN [op |-> "updateBidStatus_", bidId |-> bidId, error |-> "Bid not found"]
    ELSE [op |-> "updateBidStatus_", bidId |-> bidId, success |-> TRUE,
          newStatus |-> Trim(newStatus), row |-> FindRow(sh, bidId)]

\* the sheet as updateBidStatus_ leaves it: column J of the first matching row
StatusWritten(sh, bidId, newStatus) ==
    IF Trim(bidId) = "" \/ Trim(newStatus) = "" \/ FindRow(sh, bidId) = 0
    THEN sh
    ELSE [sh EXCEPT ![FindRow(sh, bidId)].status = Trim(newStatus)]

\* updateBidStatus_(ss, bidId, newStatus)
updateBidStatus_(bidId, newStatus) ==
    /\ pc = "idle"
    /\ sheet' = StatusWritten(sheet, bidId, newStatus)
    /\ probe' = Returned(StatusResult(sheet, bidId, newStatus))
    /\ UNCHANGED <<settings, pc, ctx, made, calendar, passes, staging, listing>>

---------------------------------------------------------------------------
(* WEB API, sheets.js side *)

\* normalizeStatus(status)
normalizeStatus(status) ==
    IF Trim(status) \in NewStatuses THEN Trim(status) ELSE "New"

\* normalizeBid(normalizeRow(row)): the row as a bid, its status normalized
\* (the archived flag is status = "Archived": a row has no archived column)
normalizeBid(row) == [row EXCEPT !.status = normalizeStatus(@)]

\* updateBidById(bidId, {archived}): the merged bid that writeRow writes to
\* columns A-U of the row
MergeArchived(row, archived) ==
    LET found == normalizeBid(row)
    IN  [found EXCEPT !.status =
            IF archived THEN "Archived"
            ELSE normalizeStatus(IF found.status = "Archived"
                                 THEN "Reviewing" ELSE found.status)]

\* the updates object of a call: the keys it has, the keys whose value is
\* defined, and the values
Updates(keys, def, status, notes, archived) ==
    [keys |-> keys, def |-> def, status |-> status, notes |-> notes,
     archived |-> archived]

\* {...found.bid, ...updates} and the status branch, as toRowValues writes
\* them: an undefined value is written as an empty cell
MergeStatusNotes(found, u) ==
    [found EXCEPT
        !.status = IF "status" \in u.keys
                   THEN normalizeStatus(IF "status" \in u.def THEN u.status ELSE "")
                   ELSE @,
        !.notes = IF "notes" \in u.keys
                  THEN (IF "notes" \in u.def THEN u.notes ELSE "")
                  ELSE @]

\* the merged bid updateBidById writes to columns A-U of the row
MergedBid(row, u) ==
    IF "archived" \in u.keys
    THEN MergeArchived(MergeStatusNotes(normalizeBid(row), u),
                       "archived" \in u.def /\ u.archived)
    ELSE MergeStatusNotes(normalizeBid(row), u)

\* the HTTP status of the route handlers GET and PUT: 404 for null
HttpStatus(op, found) ==
    IF op \in {"GET", "PUT"} THEN (IF found THEN 200 ELSE 404) ELSE 0

\* the value updateBidById returns: null, or the merged bid
UpdateResult(op, sh, bidId, u) ==
    IF FindRow(sh, bidId) = 0
    THEN [op |-> op, bidId |-> bidId, updates |-> u, found |-> FALSE,
          http |-> HttpStatus(op, FALSE)]
    ELSE [op |-> op, bidId |-> bidId, updates |-> u, found |-> TRUE,
          http |-> HttpStatus(op, TRUE),
          bid |-> normalizeBid(MergedBid(sh[FindRow(sh, bidId)], u))]

\* updateBidById(bidId, updates), called by op
updateBidById(op, bidId, u) ==
    /\ pc = "idle"
    /\ sheet' = IF FindRow(sheet, bidId) = 0 THEN sheet
                ELSE [sheet EXCEPT ![FindRow(sheet, bidId)] = MergedBid(@, u)]
    /\ probe' = Returned(UpdateResult(op, sheet, bidId, u))
    /\ UNCHANGED <<settings, pc, ctx, made, calendar, passes, staging, listing>>

\* updateBidArchive(bidId, archived)
updateBidArchive(bidId, archived) ==
    updateBidById("updateBidArchive", bidId,
                  Updates({"archived"}, {"archived"}, "", "", archived))

\* updateBidNotes(bidId, notes)
updateBidNotes(bidId, notes) ==
    updateBidById("updateBidNotes", bidId, Updates({"notes"}, {"notes"}, "", notes, FALSE))

\* PUT /api/bids/[id]: the updates object always has the three keys, with
\* the values the body has; null is answered with 404
PUT(id, def, status, notes, archived) ==
    updateBidById("PUT", id, Updates({"status", "notes", "archived"}, def,
                                     status, notes, archived))

\* GET /api/bids/[id]: getBidById(id), null answered with 404
GET(id) ==
    /\ pc = "idle"
    /\ probe' = Returned(IF FindRow(sheet, id) = 0
                         THEN [op |-> "GET", bidId |-> id, found |-> FALSE,
                               http |-> HttpStatus("GET", FALSE)]
                         ELSE [op |-> "GET", bidId |-> id, found |-> TRUE,
                               http |-> HttpStatus("GET", TRUE),
                               bid |-> normalizeBid(sheet[FindRow(sheet, id)])])
    /\ UNCHANGED <<sheet, settings, pc, ctx, made, calendar, passes, staging, listing>>

---------------------------------------------------------------------------
(* WEB CLIENT: the decoder behind fetchBids *)

\* LEGACY_STATUS_MAP[raw] || raw
LEGACY_STATUS_MAP(raw) ==
    CASE raw = "Open" -> "New"
      [] raw = "Walkthrough Scheduled" -> "Reviewing"
      [] raw = "In Progress" -> "Reviewing"
      [] raw = "No Bid" -> "Lost"
      [] raw = "On Hold" -> "Reviewing"
      [] OTHER -> raw

\* normalizeStatus(status) of the client; STATUS_OPTIONS are the six
\* statuses of the new schema
ClientNormalizeStatus(status) ==
    IF LEGACY_STATUS_MAP(Trim(status)) \in NewStatuses
    THEN LEGACY_STATUS_MAP(Trim(status))
    ELSE "New"

\* normalizeBid(b) of the client
ClientNormalizeBid(b) ==
    [b EXCEPT !.status = IF b.archived \in {"TRUE", "Y"} THEN "Archived"
                         ELSE IF ClientNormalizeStatus(@) = "Archived" THEN "Archived"
                         ELSE ClientNormalizeStatus(@)]

---------------------------------------------------------------------------
(* BID IDS *)

\* the years of the clock
Years == {2024, 2025}

\* the largest member of a set of naturals, 0 for the empty set
MaxOf(S) == CHOOSE m \in S \cup {0} : \A x \in S : x <= m

\* String(n).padStart(3, '0')
Pad3(n) ==
    IF n < 10 THEN "00" \o ToString(n)
    ELSE IF n < 100 THEN "0" \o ToString(n)
    ELSE ToString(n)

\* 'BID-' + year + '-' + the padded sequence number
MakeId(year, n) == "BID-" \o ToString(year) \o "-" \o Pad3(n)

\* existingId.match(/BID-\d{4}-(\d{3})/): the sequence number of an id of
\* any year, 0 without a match
SeqAnyYear(id) ==
    IF \E y \in Years, n \in 1..MaxSeq : id = MakeId(y, n)
    THEN CHOOSE n \in 1..MaxSeq : \E y \in Years : id = MakeId(y, n)
    ELSE 0

\* id.startsWith(prefix) and Number(id.slice(prefix.length)): the sequence
\* number of an id of the year, 0 for another id
SeqOfYear(id, year) ==
    IF \E n \in 1..MaxSeq : id = MakeId(year, n)
    THEN CHOOSE n \in 1..MaxSeq : id = MakeId(year, n)
    ELSE 0

\* the year of an id BID-<year>-<seq>, 0 for another id
YearOf(id) ==
    IF \E y \in Years : SeqOfYear(id, y) # 0
    THEN CHOOSE y \in Years : SeqOfYear(id, y) # 0
    ELSE 0

\* the id addBidFromApi_ generates: the largest sequence number of all rows
AddBidFromApiId(sh, year) ==
    MakeId(year, MaxOf({SeqAnyYear(sh[r].bidId) : r \in 1..Len(sh)}) + 1)

\* buildNextBidId(existingBids)
buildNextBidId(bids, year) ==
    MakeId(year, MaxOf({SeqOfYear(bids[r].bidId, year) : r \in 1..Len(bids)}) + 1)

\* the minutes of the clock as Utilities.formatDate writes them
FormStamps == {"20250101-1200", "20250101-1201"}

\* onFormSubmit's id: the id typed into the form, or BID-<minute>
FormBidId(typed, stamp) == IF typed # "" THEN typed ELSE "BID-" \o stamp

\* the row addBidFromApi_ writes
ApiRow(bidId, bidName, status) ==
    [EmptyRow EXCEPT !.bidId = bidId, !.bidName = bidName,
                     !.status = IF status # "" THEN status ELSE "Open",
                     !.rfpAttachYN = "Y"]

\* addBidFromApi_(ss, data): returns the id and the row number
addBidFromApi_(bidName, status, year) ==
    /\ pc = "idle"
    /\ sheet' = Append(sheet, ApiRow(AddBidFromApiId(sheet, year), bidName, status))
    /\ probe' = [op |-> "addBid", success |-> TRUE, year |-> year,
                 bidId |-> AddBidFromApiId(sheet, year), row |-> Len(sheet) + 1]
    /\ UNCHANGED <<settings, pc, ctx, made, calendar, passes, staging, listing>>

\* listBids(): the rows with an id, as bids
listBids(sh) == SelectSeq([i \in 1..Len(sh) |-> normalizeBid(sh[i])], LAMBDA b : b.bidId # "")

\* the id createBid gives the bid
CreateBidId(sh, inputId, year) ==
    IF inputId # "" THEN inputId ELSE buildNextBidId(listBids(sh), year)

\* the bid createBid appends
CreateRow(bidId, bidName, status, archived) ==
    [EmptyRow EXCEPT !.bidId = bidId,
                     !.bidName = IF bidName # "" THEN bidName ELSE "Untitled Bid",
                     !.status = IF archived THEN "Archived"
                                ELSE normalizeStatus(IF status # "" THEN status ELSE "New")]

\* createBid(input): returns the bid
createBid(inputId, bidName, status, archived, year) ==
    /\ pc = "idle"
    /\ sheet' = Append(sheet, CreateRow(CreateBidId(sheet, inputId, year), bidName, status, archived))
    /\ probe' = [op |-> "createBid", generated |-> inputId = "", year |-> year,
                 bid |-> CreateRow(CreateBidId(sheet, inputId, year), bidName, status, archived)]
    /\ UNCHANGED <<settings, pc, ctx, made, calendar, passes, staging, listing>>

---------------------------------------------------------------------------
(* Spec: the life of one bid.  The form appends the bid's row to the empty *)
(* sheet; passes, status updates and archive requests follow in any order. *)

NoProbe == [op |-> "none"]

Init ==
    /\ sheet = <<>>
    /\ settings \in SettingsInputs
    /\ pc = "idle"
    /\ ctx = NoCtx
    /\ made = [k \in Kinds |-> [i \in 1..MaxRows |-> 0]]
    /\ calendar = {}
    /\ passes = 0
    /\ probe = NoProbe
    /\ staging = <<>>
    /\ listing = <<>>

Next ==
    \/ \E fails \in FailChoices(FailPoints) : RunPass("syncAll", fails) /\ UNCHANGED passes
    \/ \E fails \in FailChoices(FailPoints) : RunPass("driveOnly", fails) /\ UNCHANGED passes
    \/ \E fails \in FailChoices(FailPoints) : RunPass("calendarOnly", fails) /\ UNCHANGED passes
    \/ PassReturn
    \/ /\ sheet = <<>>
       /\ \E due \in FormDates, walk \in FormDates, rfp \in FormRfpSources :
             onFormSubmit("BID-T1", "Janitorial", due, walk, rfp)
    \/ \E st \in StatusInputs : updateBidStatus_("BID-T1", st)
    \/ \E a \in BOOLEAN : updateBidArchive("BID-T1", a)

Spec == Init /\ [][Next]_vars

---------------------------------------------------------------------------
(* SpecRules: applyAutoStatus_ on its own.  Init draws a sheet row, the    *)
(* first action reads it as syncAll does and applies the rules, the second *)
(* applies them again to the result.                                       *)

RuleStatuses == AllStatuses \cup PaddedStrings \cup {"", "Pending"}
RuleDates == {0, -1, 5000}
RuleRefs == {0, -1, 1}

RuleRows ==
    {[EmptyRow EXCEPT !.bidId = "BID-T1", !.bidName = "Janitorial",
                      !.status = s, !.walkDateTime = w,
                      !.draftUrl = d, !.finalUrl = f] :
        s \in RuleStatuses, w \in RuleDates, d \in RuleRefs, f \in RuleRefs}

InitRules ==
    /\ sheet = <<>>
    /\ settings = DefaultSettings
    /\ pc = "idle"
    /\ ctx = NoCtx
    /\ made = [k \in Kinds |-> [i \in 1..MaxRows |-> 0]]
    /\ calendar = {}
    /\ passes = 0
    /\ probe \in {[op |-> "row", row |-> r] : r \in RuleRows}
    /\ staging = <<>>
    /\ listing = <<>>

\* const bid = readBidRow_(row); applyAutoStatus_(bid)
RulesApply ==
    /\ probe.op = "row"
    /\ probe' = [op |-> "applied", in |-> readBidRow_(probe.row),
                 out |-> applyAutoStatus_(readBidRow_(probe.row))]
    /\ UNCHANGED <<sheet, settings, pc, ctx, made, calendar, passes, staging, listing>>

\* applyAutoStatus_ on the bid it has returned
RulesApplyAgain ==
    /\ probe.op = "applied"
    /\ probe' = [op |-> "twice", in |-> probe.in, out |-> probe.out,
                 out2 |-> applyAutoStatus_(probe.out)]
    /\ UNCHANGED <<sheet, settings, pc, ctx, made, calendar, passes, staging, listing>>

NextRules == RulesApply \/ RulesApplyAgain

SpecRules == InitRules /\ [][NextRules]_vars

---------------------------------------------------------------------------
(* What a pass did, read from ctx while the pass has not returned *)

SyncAllDone == pc = "done" /\ ctx.mode = "syncAll"

RowsOfPass == 1..Len(ctx.values)

IsWritten(r) == \E k \in 1..Len(ctx.updates) : ctx.updates[k].rowIdx = r

\* the bid the pass pushed for row r
UpdateOf(r) ==
    ctx.updates[CHOOSE k \in 1..Len(ctx.updates) : ctx.updates[k].rowIdx = r].bid

\* the bid the pass read from row r
ReadOf(r) == readBidRow_(ctx.values[r])

---------------------------------------------------------------------------
(* Locked statuses *)

\* C1: a bid whose status is Won, Lost, No Bid or On Hold comes out of
\* applyAutoStatus_ with the same status, whatever its walkthrough date,
\* draft ref and final ref; and a syncAll pass leaves the status of such a row
\* as it read it, in the bid it pushes and in the sheet after the write-back.
\* (The first part speaks of the function alone and is evaluated once, before
\* the first row exists.)
C1_LockedStatusKept ==
    /\ sheet = <<>> =>
          \A row \in RuleRows :
              Trim(row.status) \in LOCKED_STATUSES
                  => applyAutoStatus_(readBidRow_(row)).status = Trim(row.status)
    /\ SyncAllDone =>
          \A r \in RowsOfPass :
              ReadOf(r).status \in LOCKED_STATUSES =>
                  /\ Trim(sheet[r].status) = ReadOf(r).status
                  /\ IsWritten(r) => UpdateOf(r).status = ReadOf(r).status

\* a syncAll pass has written a row it read with a locked status and a final ref
C1_Witness ==
    /\ SyncAllDone
    /\ \E r \in RowsOfPass :
          /\ ReadOf(r).status \in LOCKED_STATUSES
          /\ ReadOf(r).finalUrl # 0
          /\ IsWritten(r)

\* C2: a syncAll pass leaves the status of a row it read as Archived at
\* Archived, even when the row has a final ref.
C2_ArchivedKept ==
    SyncAllDone =>
        \A r \in RowsOfPass :
            ReadOf(r).status = "Archived" => sheet[r].status = "Archived"

---------------------------------------------------------------------------
(* The rule table *)

\* the status the rule table gives a bid that is not locked
C3_TableStatus(b) ==
    IF b.finalUrl # 0 THEN "Submitted"
    ELSE IF b.draftUrl # 0 /\ b.status \in {"Open", "Walkthrough Scheduled"}
        THEN "In Progress"
    ELSE IF b.walkDateTime > 0 /\ b.status = "Open"
        THEN "Walkthrough Scheduled"
    ELSE b.status

\* C3: for a bid that is not locked, applyAutoStatus_ sets the status to
\* Submitted when the final ref is non-empty; otherwise to In Progress when the
\* draft ref is non-empty and the status is Open or Walkthrough Scheduled;
\* otherwise to Walkthrough Scheduled when the walkthrough date is set and the
\* status is Open; otherwise it leaves the status; and it changes no other
\* field of the bid.
C3_RuleTable ==
    probe.op \in {"applied", "twice"} =>
        (probe.in.status \notin LOCKED_STATUSES =>
            /\ probe.out.status = C3_TableStatus(probe.in)
            /\ \A c \in Columns \ {"status"} : probe.out[c] = probe.in[c])

\* the rules have moved a Walkthrough Scheduled bid with a draft to In Progress
C3_Witness ==
    /\ probe.op = "applied"
    /\ probe.in.status = "Walkthrough Scheduled"
    /\ probe.in.draftUrl # 0
    /\ probe.in.finalUrl = 0
    /\ probe.out.status = "In Progress"

\* C4: applying applyAutoStatus_ to the bid it returned gives that bid again.
C4_Idempotent ==
    probe.op = "twice" => probe.out2 = probe.out

\* the rules were applied twice to a bid whose status the first call changed
C4_Witness ==
    /\ probe.op = "twice"
    /\ probe.in.status = "Open"
    /\ probe.in.walkDateTime > 0
    /\ probe.out.status # probe.in.status

---------------------------------------------------------------------------
(* The calendar gate *)

\* C5: in syncAll, for a row whose processing reaches the calendar step,
\* upsertCalendar_ is called exactly when the bid was never synced (no
\* dueEventId, no walkEventId, no lastHash) or the fingerprint computed in this
\* pass differs from the stored lastHash; when the fingerprint equals
\* lastHash, no calendar operation is performed for the row.
C5_CalendarGate ==
    SyncAllDone =>
        \A r \in RowsOfPass :
            (ctx.log[r].outcome # "skipped" /\ ctx.log[r].reachedGate) =>
                LET neverSynced == /\ ReadOf(r).dueEventId = 0
                                   /\ ReadOf(r).walkEventId = 0
                                   /\ ReadOf(r).lastHash = <<>>
                    differs == IF IsWritten(r)
                               THEN UpdateOf(r).lastHash # ReadOf(r).lastHash
                               ELSE ctx.log[r].changed
                IN  /\ ctx.log[r].calCalled <=> (neverSynced \/ differs)
                    /\ ~differs => ctx.log[r].calOps = {}

\* a syncAll pass has written a row with a due date whose fingerprint was the
\* stored one, and has left the calendar alone
C5_Witness ==
    /\ SyncAllDone
    /\ \E r \in RowsOfPass :
          /\ IsWritten(r)
          /\ ReadOf(r).dueDate > 0
          /\ UpdateOf(r).lastHash = ReadOf(r).lastHash
          /\ ~ctx.log[r].calCalled

---------------------------------------------------------------------------
(* Notifications *)

\* the row is in the list
InList(list, r) == \E k \in 1..Len(list) : list[k] = r

\* C7 as stated: a syncAll pass sends the new-bid notification for a row, and
\* sets its notified flag, exactly when the row's event ids were empty before
\* the pass and one is populated by it, the flag was not set and
\* NOTIFY_ON_NEW_BID is TRUE.
C7_NewlyPopulated ==
    SyncAllDone =>
        \A r \in RowsOfPass :
            IsWritten(r) =>
                (InList(ctx.newBids, r) <=>
                    /\ ReadOf(r).dueEventId = 0 /\ ReadOf(r).walkEventId = 0
                    /\ UpdateOf(r).dueEventId # 0 \/ UpdateOf(r).walkEventId # 0
                    /\ ReadOf(r).notified # CheckMark
                    /\ ctx.settings.NOTIFY_ON_NEW_BID = "TRUE")

\* C7: a syncAll pass sends the new-bid notification for a row, and sets its
\* notified flag, exactly when the row raised no exception, holds a due or
\* walkthrough event id after the calendar step (set in this pass or before
\* it), its notified flag was not set and NOTIFY_ON_NEW_BID is TRUE.
C7_NewBidNotification ==
    SyncAllDone =>
        \A r \in RowsOfPass :
            /\ InList(ctx.newBids, r) <=>
                  /\ IsWritten(r)
                  /\ UpdateOf(r).dueEventId # 0 \/ UpdateOf(r).walkEventId # 0
                  /\ ReadOf(r).notified # CheckMark
                  /\ ctx.settings.NOTIFY_ON_NEW_BID = "TRUE"
            /\ IsWritten(r) =>
                  /\ UpdateOf(r).notified = CheckMark
                        <=> (InList(ctx.newBids, r) \/ ReadOf(r).notified = CheckMark)
                  /\ sheet[r].notified = UpdateOf(r).notified

\* a syncAll pass has sent the new-bid notification for a row whose event id
\* was populated before the pass
C7_Witness ==
    /\ SyncAllDone
    /\ \E r \in RowsOfPass :
          /\ InList(ctx.newBids, r)
          /\ ReadOf(r).dueEventId # 0 \/ ReadOf(r).walkEventId # 0
          /\ sheet[r].notified = CheckMark

\* the bids the notification logic can meet: flag, event ids
NoteBids ==
    {[EmptyRow EXCEPT !.notified = n, !.dueEventId = d, !.walkEventId = w] :
        n \in {"", CheckMark}, d \in {0, 1}, w \in {0, 1}}

\* C8: for one row in one syncAll pass at most one of the new-bid branch and
\* the update branch is taken, under every combination of settings, flag,
\* event ids and change.  (The first part speaks of the decision alone and is
\* evaluated once, before the first row exists.)
C8_BranchesExclusive ==
    /\ sheet = <<>> =>
          \A b \in NoteBids, changed \in BOOLEAN, stg \in SettingsSpace :
              ~(NotificationDecision(b, changed, stg).new
                /\ NotificationDecision(b, changed, stg).upd)
    /\ SyncAllDone =>
          \A r \in RowsOfPass :
              ~(InList(ctx.newBids, r) /\ InList(ctx.updatedBids, r))

\* a syncAll pass has taken the update branch for a row while both
\* notification settings are on
C8_Witness ==
    /\ SyncAllDone
    /\ ctx.settings.NOTIFY_ON_NEW_BID = "TRUE"
    /\ ctx.settings.NOTIFY_ON_UPDATES = "TRUE"
    /\ \E r \in RowsOfPass :
          InList(ctx.updatedBids, r) /\ ~InList(ctx.newBids, r)

---------------------------------------------------------------------------
(* Drive objects *)

\* C10: whatever passes have run, no bid has had more than one folder, more
\* than one draft document or more than one final document created for it.
C10_CreatedOnce ==
    \A k \in {"folder", "draft", "final"} :
        \A i \in 1..MaxRows : made[k][i] <= 1

---------------------------------------------------------------------------
(* SpecSheet: a sheet of several bids.  The form appends rows, some of them *)
(* without a name; syncAll passes follow.                                   *)

\* the external calls that raise in this specification: none, one of the
\* Drive steps, one of the calendar step
SheetFailPoints == {"none", "rfp", "due"}

InitSheet ==
    /\ sheet = <<>>
    /\ settings = DefaultSettings
    /\ pc = "idle"
    /\ ctx = NoCtx
    /\ made = [k \in Kinds |-> [i \in 1..MaxRows |-> 0]]
    /\ calendar = {}
    /\ passes = 0
    /\ probe = NoProbe
    /\ staging = <<>>
    /\ listing = <<>>

NextSheet ==
    \/ /\ Len(sheet) < MaxRows
       /\ \E name \in FormNames :
             onFormSubmit("BID-T1", name, 5000, 0, "rfp-file")
    \/ /\ passes < MaxPasses
       /\ \E fails \in FailChoices(SheetFailPoints) : RunPass("syncAll", fails)
       /\ passes' = passes + 1
    \/ PassReturn

SpecSheet == InitSheet /\ [][NextSheet]_vars

---------------------------------------------------------------------------
(* The write-back batch *)

\* C9: the batch a syncAll pass writes back holds exactly one update for
\* every row that was not skipped and raised no exception, and none for any
\* other row; every row of the sheet is processed, the rows after one that
\* raised included; a row that was skipped or raised holds after the
\* write-back the cells it held before the pass.
C9_BatchIsSuccessfulRows ==
    SyncAllDone =>
        /\ Len(ctx.log) = Len(ctx.values)
        /\ \A r \in RowsOfPass :
              /\ IsWritten(r) <=> ctx.log[r].outcome = "written"
              /\ SkipsRow(ctx.values[r]) <=> ctx.log[r].outcome = "skipped"
              /\ Cardinality({k \in 1..Len(ctx.updates) :
                                 ctx.updates[k].rowIdx = r}) <= 1
              /\ ~IsWritten(r) => sheet[r] = ctx.values[r]
              /\ IsWritten(r) => sheet[r] = WriteBackRow(ctx.values[r], UpdateOf(r))

\* a syncAll pass in which a row raised and a later row was written
C9_Witness ==
    /\ SyncAllDone
    /\ \E r1 \in RowsOfPass, r2 \in RowsOfPass :
          /\ r1 < r2
          /\ ctx.log[r1].outcome = "threw"
          /\ ctx.log[r2].outcome = "written"
          /\ sheet[r2] # ctx.values[r2]

---------------------------------------------------------------------------
(* SpecHash: computeHash_ on its own.  Init draws a sheet row; the action  *)
(* reads it as syncAll does, changes one cell and fingerprints both bids.  *)

HashRows ==
    {[FormRow("BID-T1", "Janitorial", due, 0, "rfp-file")
         EXCEPT !.driveFolderUrl = ref, !.notified = n] :
        due \in {0, -1, 5000}, ref \in {0, 1}, n \in {"", CheckMark}}

\* the values a cell of the column is changed to
HashValues(c) ==
    CASE c \in {"dueDate", "walkDateTime"} -> {0, -1, -2, 5000, 5400, 6000}
      [] c \in {"driveFolderUrl", "rfpInFolderUrl", "draftUrl", "finalUrl",
                "dueEventId", "walkEventId"} -> {0, -1, 1, 2}
      [] c = "lastHash" -> {<<>>, <<"digest">>}
      [] c = "status" -> {"Open", "Won"}
      [] c = "rfpAttachYN" -> {"Y", "N"}
      [] c = "notified" -> {"", CheckMark}
      [] OTHER -> {"", "Janitorial", "Landscaping"}

InitHash ==
    /\ sheet = <<>>
    /\ settings = DefaultSettings
    /\ pc = "idle"
    /\ ctx = NoCtx
    /\ made = [k \in Kinds |-> [i \in 1..MaxRows |-> 0]]
    /\ calendar = {}
    /\ passes = 0
    /\ probe \in {[op |-> "row", row |-> r] : r \in HashRows}
    /\ staging = <<>>
    /\ listing = <<>>

\* computeHash_ of the bid read from the row and of the bid with one field
\* changed
HashVary(c, v) ==
    /\ probe.op = "row"
    /\ LET a == readBidRow_(probe.row)
           b == [a EXCEPT ![c] = v]
       IN  probe' = [op |-> "hashed", field |-> c, a |-> a, b |-> b,
                     ha |-> computeHash_(a), hb |-> computeHash_(b)]
    /\ UNCHANGED <<sheet, settings, pc, ctx, made, calendar, passes, staging, listing>>

NextHash == \E c \in Columns : \E v \in HashValues(c) : HashVary(c, v)

SpecHash == InitHash /\ [][NextHash]_vars

---------------------------------------------------------------------------
(* The fingerprint *)

\* the mutable fields the fingerprint is said to be taken over
C6_MutableFields ==
    {"bidName", "client", "postingUrl", "dueDate", "walkDateTime",
     "walkLocation", "ownerName", "ownerEmail", "status", "driveFolderUrl",
     "rfpInFolderUrl", "draftUrl", "finalUrl", "notes"}

C6_SyncFields == {"lastHash", "dueEventId", "walkEventId", "notified"}

\* C6 as stated: two bids that differ only in lastHash, dueEventId,
\* walkEventId or notified have the same fingerprint, and two bids that differ
\* in one of the mutable fields have different fingerprints.
C6_MutableFieldsDecide ==
    probe.op = "hashed" =>
        /\ probe.field \in C6_SyncFields => probe.ha = probe.hb
        /\ (probe.field \in C6_MutableFields
            /\ probe.a[probe.field] # probe.b[probe.field])
               => probe.ha # probe.hb

\* the two date cells print alike: neither holds a date, or both hold dates
\* of the same second
C6_PrintAlike(d1, d2) ==
    \/ d1 <= 0 /\ d2 <= 0
    \/ d1 > 0 /\ d2 > 0 /\ d1 \div 1000 = d2 \div 1000

\* C6: two bids that differ only in lastHash, dueEventId, walkEventId or
\* notified have the same fingerprint; two bids that differ in one mutable
\* field other than the two dates have different fingerprints; two bids that
\* differ only in dueDate or only in walkDateTime have different fingerprints
\* exactly when the two cells do not print alike, a cell that holds no valid
\* date printing as the empty text and a date printing to the second.
C6_FingerprintFields ==
    probe.op = "hashed" =>
        /\ probe.field \in C6_SyncFields => probe.ha = probe.hb
        /\ (probe.field \in C6_MutableFields \ {"dueDate", "walkDateTime"}
            /\ probe.a[probe.field] # probe.b[probe.field])
               => probe.ha # probe.hb
        /\ probe.field \in {"dueDate", "walkDateTime"}
               => (probe.ha = probe.hb
                      <=> C6_PrintAlike(probe.a[probe.field], probe.b[probe.field]))

\* two bids with different due date cells and one fingerprint
C6_Witness ==
    /\ probe.op = "hashed"
    /\ probe.field = "dueDate"
    /\ probe.a.dueDate # probe.b.dueDate
    /\ probe.ha = probe.hb

---------------------------------------------------------------------------
(* SpecCalendar: one bid and its calendar events.  The form appends the    *)
(* bid; syncAll and calendarOnly passes upsert its events, a status update *)
(* changes its fingerprint, and a calendar user deletes events.            *)

\* a user of the calendar deletes an event
DeleteEvent(ev) ==
    /\ pc = "idle"
    /\ ev \in calendar
    /\ calendar' = calendar \ {ev}
    /\ UNCHANGED <<sheet, settings, pc, ctx, made, passes, probe, staging, listing>>

\* the settings of this specification: the Drive steps are off
CalendarSettings ==
    {x \in SettingsInputs : x.AUTO_CREATE_DRIVE_FOLDER = "FALSE"}

CalendarFailPoints == {"none", "due", "walk"}

InitCalendar ==
    /\ sheet = <<>>
    /\ settings \in CalendarSettings
    /\ pc = "idle"
    /\ ctx = NoCtx
    /\ made = [k \in Kinds |-> [i \in 1..MaxRows |-> 0]]
    /\ calendar = {}
    /\ passes = 0
    /\ probe = NoProbe
    /\ staging = <<>>
    /\ listing = <<>>

NextCalendar ==
    \/ /\ sheet = <<>>
       /\ \E walk \in FormDates : onFormSubmit("BID-T1", "Janitorial", 5000, walk, "")
    \/ \E fails \in FailChoices(CalendarFailPoints) :
          RunPass("syncAll", fails) /\ UNCHANGED passes
    \/ \E fails \in FailChoices(CalendarFailPoints) :
          RunPass("calendarOnly", fails) /\ UNCHANGED passes
    \/ PassReturn
    \/ \E st \in {"Open", "Won"} : updateBidStatus_("BID-T1", st)
    \/ \E ev \in calendar : DeleteEvent(ev)

SpecCalendar == InitCalendar /\ [][NextCalendar]_vars

---------------------------------------------------------------------------
(* Calendar upsert *)

\* the event id column of a kind of event
EventField(k) == IF k = "due" THEN "dueEventId" ELSE "walkEventId"

\* the events of kind k of row r in a calendar
EventsOf(cal, k, r) == {ev \in cal : ev[1] = k /\ ev[2] = r}

\* C11: in a pass, an upsert called with the id of an event that exists
\* updates it: no event is created and the row keeps the id; an upsert called
\* with an empty id, or with an id whose event is no longer in the calendar,
\* creates exactly one event, and the pass stores the id of that event in the
\* row when the row is written.
C11_UpsertSemantics ==
    [][(pc = "idle" /\ pc' = "done") =>
        \A r \in 1..Len(sheet) : \A k \in {"due", "walk"} :
            LET id      == sheet[r][EventField(k)]
                exists  == id # 0 /\ <<k, r, id>> \in calendar
                ops     == IF ctx'.log[r].outcome = "skipped" THEN {}
                           ELSE {o \in ctx'.log[r].calOps : o[1] = k}
                written == ctx'.log[r].outcome = "written"
            IN  /\ ops \subseteq {<<k, IF exists THEN "update" ELSE "create">>}
                /\ ops = {<<k, "update">>} =>
                      /\ EventsOf(calendar', k, r) = EventsOf(calendar, k, r)
                      /\ made'[k][r] = made[k][r]
                      /\ written => sheet'[r][EventField(k)] = id
                /\ ops = {<<k, "create">>} =>
                      /\ Cardinality(EventsOf(calendar', k, r) \ EventsOf(calendar, k, r)) = 1
                      /\ EventsOf(calendar, k, r) \subseteq EventsOf(calendar', k, r)
                      /\ made'[k][r] = made[k][r] + 1
                      /\ written =>
                            /\ sheet'[r][EventField(k)] # id
                            /\ <<k, r, sheet'[r][EventField(k)]>>
                                  \in calendar' \ calendar
                /\ ops = {} =>
                      EventsOf(calendar', k, r) = EventsOf(calendar, k, r)]_vars

\* a pass has created an event for a row that held the id of a deleted event,
\* and has written the new id
C11_Witness ==
    /\ pc = "done"
    /\ \E r \in RowsOfPass :
          /\ ctx.log[r].outcome = "written"
          /\ <<"due", "create">> \in ctx.log[r].calOps
          /\ ReadOf(r).dueEventId # 0
          /\ sheet[r].dueEventId # ReadOf(r).dueEventId


---------------------------------------------------------------------------
(* COMMBUYS: polls of one listing, imports of the staging sheet *)

\* a candidate of the listing
Cb(url) == [title |-> "Custodial services", url |-> url]

\* what one keyword's search returns
ListingResults ==
    {<<>>, <<Cb("url-a")>>, <<Cb("url-b ")>>, <<Cb("url-a"), Cb("url-c")>>}

\* the listing of two keywords
Listings == {<<x, y>> : x, y \in ListingResults}

\* the ids appendToBidsSheet_ can draw within one minute
CbIds == {"CB-01011200-A1B2", "CB-01011200-C3D4"}

\* an id for each candidate of a run
CbIdChoices(n) == [1..n -> CbIds]

CommbuysSettings ==
    {[DefaultSettings EXCEPT !.COMMBUYS_ENABLED = "TRUE",
                             !.COMMBUYS_AUTO_IMPORT = a] : a \in Flag}

\* the Bids sheet before the first poll: empty, or one bid entered through
\* the form with a posting URL
CommbuysSheets ==
    {<<>>} \cup
    {<<[FormRow("BID-T1", "Janitorial", 0, 0, "") EXCEPT !.postingUrl = u]>> :
        u \in {"url-a", "url-c"}}

InitCommbuys ==
    /\ sheet \in CommbuysSheets
    /\ settings \in CommbuysSettings
    /\ pc = "idle"
    /\ ctx = NoCtx
    /\ made = [k \in Kinds |-> [i \in 1..MaxRows |-> 0]]
    /\ calendar = {}
    /\ passes = 0
    /\ probe = NoProbe
    /\ staging = <<>>
    /\ listing \in Listings

NextCommbuys ==
    \/ \E ids \in CbIdChoices(Len(AllCandidates(listing, 1))) : pollCommbuys(ids)
    \/ \E ids \in CbIdChoices(Len(staging)) : importSelectedCommbuys(ids)

SpecCommbuys == InitCommbuys /\ [][NextCommbuys]_vars

\* a poll step
IsPoll == passes' = passes + 1

\* the rows a poll step appended to the Bids sheet and to the staging sheet
PollAdded ==
    [j \in 1..(Len(sheet') - Len(sheet)) |-> sheet'[Len(sheet) + j].postingUrl]
    \o [j \in 1..(Len(staging') - Len(staging)) |-> staging'[Len(staging) + j].url]

\* C12: a poll that is not the first adds no row (the listing never
\* changes), in staging mode and in auto-import mode; a poll adds a URL at
\* most once; a poll adds no candidate whose url is the postingUrl of a Bid
\* or the url of a staging row
C12_PollDedup ==
    [][IsPoll =>
        /\ passes >= 1 => Len(sheet') = Len(sheet) /\ Len(staging') = Len(staging)
        /\ \A i, j \in 1..Len(PollAdded) : PollAdded[i] = PollAdded[j] => i = j
        /\ \A j \in 1..Len(PollAdded) :
              /\ \A r \in 1..Len(sheet) : sheet[r].postingUrl # PollAdded[j]
              /\ \A r \in 1..Len(staging) : staging[r].url # PollAdded[j]]_vars

\* C13: an import creates one Bid for each staging row not marked imported
\* and marks it; an import of a staging sheet with no unmarked row creates
\* no Bid; no step clears an imported mark
C13_ImportOnce ==
    [][/\ \A r \in 1..Len(staging) :
             staging[r].imported = CheckMark =>
                r <= Len(staging') /\ staging'[r].imported = CheckMark
       /\ (passes' = passes /\ Len(staging) > 0) =>
             /\ Len(sheet') - Len(sheet)
                  = Cardinality({r \in 1..Len(staging) : staging[r].imported # CheckMark})
             /\ \A r \in 1..Len(staging') : staging'[r].imported = CheckMark
             /\ \A r \in 1..Len(sheet) : sheet'[r] = sheet[r]
             /\ Len(staging') = Len(staging)]_vars

\* a second import has run after a poll staged candidates and a first
\* import promoted them: all rows are marked and each has one Bid
C13_Witness ==
    /\ Len(staging) >= 2
    /\ \A r \in 1..Len(staging) : staging[r].imported = CheckMark
    /\ \A r \in 1..Len(staging) :
          Cardinality({i \in 1..Len(sheet) : sheet[i].postingUrl = staging[r].url}) = 1

---------------------------------------------------------------------------
(* SpecCreate: bids created through the form, the two web APIs and the     *)
(* COMMBUYS auto-import, in any order, while the clock moves on.           *)

\* the ids a user types into the form or passes to createBid
TypedIds == {"", "BID-T1"}

\* the years the clock can show: none before the year of a generated id
ClockYears(sh) == {y \in Years : \A r \in 1..Len(sh) : YearOf(sh[r].bidId) <= y}

CreateListings == {<<<<Cb("url-a")>>>>, <<<<Cb("url-a"), Cb("url-c")>>>>}

InitCreate ==
    /\ sheet = <<>>
    /\ settings = [DefaultSettings EXCEPT !.COMMBUYS_ENABLED = "TRUE",
                                          !.COMMBUYS_AUTO_IMPORT = "TRUE"]
    /\ pc = "idle"
    /\ ctx = NoCtx
    /\ made = [k \in Kinds |-> [i \in 1..MaxRows |-> 0]]
    /\ calendar = {}
    /\ passes = 0
    /\ probe = NoProbe
    /\ staging = <<>>
    /\ listing \in CreateListings

NextCreate ==
    \/ /\ Len(sheet) < MaxSeq
       /\ \E typed \in TypedIds, stamp \in FormStamps :
             onFormSubmit(FormBidId(typed, stamp), "Janitorial", 0, 0, "")
    \/ /\ Len(sheet) < MaxSeq
       /\ \E year \in ClockYears(sheet) : addBidFromApi_("Janitorial", "", year)
    \/ /\ Len(sheet) < MaxSeq
       /\ \E typed \in TypedIds, year \in ClockYears(sheet) :
             createBid(typed, "Janitorial", "", FALSE, year)
    \/ /\ Len(sheet) < MaxSeq
       /\ \E ids \in CbIdChoices(Len(AllCandidates(listing, 1))) : pollCommbuys(ids)

SpecCreate == InitCreate /\ [][NextCreate]_vars

\* C14: no two rows of the Bids sheet have the same id
C14_UniqueIds ==
    \A i, j \in 1..Len(sheet) : sheet[i].bidId = sheet[j].bidId => i = j

\* the id the claim gives a new bid of the year: one more than the largest
\* sequence number among the ids of that year
C15_ClaimedId(sh, year) ==
    MakeId(year, MaxOf({SeqOfYear(sh[r].bidId, year) : r \in 1..Len(sh)}) + 1)

\* C15: the id addBidFromApi_ generates and the id createBid generates
\* through buildNextBidId are BID-<year>-<SEQ>, SEQ one more than the
\* largest sequence number among the existing ids of that year
C15_IdFormat ==
    [][/\ (probe' # probe /\ probe'.op = "addBid") =>
             probe'.bidId = C15_ClaimedId(sheet, probe'.year)
       /\ (probe' # probe /\ probe'.op = "createBid" /\ probe'.generated) =>
             probe'.bid.bidId = C15_ClaimedId(sheet, probe'.year)]_vars

---------------------------------------------------------------------------
(* SpecUpdate: up to MaxRows bids, created through the form and through    *)
(* createBid, then read and updated through the web APIs of both sides,    *)
(* with syncAll passes in between.  probe keeps the last value returned.   *)

\* the ids the callers ask for: the bid of the form, and an id no row has
\* (the bid of createBid is the row the calls must leave alone)
AskedIds == {"BID-T1", "BID-T9"}

\* the statuses and the notes the callers send
SentStatuses == {"Won", "No Bid"}
SentNotes == {"call back"}

\* the bodies of PUT: one attribute, or none
PutBodies == {{}, {"status"}, {"notes"}, {"archived"}}

\* no Drive step, no calendar step (the bids have no date), no notification
UpdateSettings ==
    [DefaultSettings EXCEPT !.AUTO_CREATE_DRIVE_FOLDER = "FALSE",
                            !.AUTO_ATTACH_RFP = "FALSE",
                            !.AUTO_CREATE_DOCS = "FALSE",
                            !.NOTIFY_ON_NEW_BID = "FALSE"]

InitUpdate ==
    /\ sheet = <<>>
    /\ settings = UpdateSettings
    /\ pc = "idle"
    /\ ctx = NoCtx
    /\ made = [k \in Kinds |-> [i \in 1..MaxRows |-> 0]]
    /\ calendar = {}
    /\ passes = 0
    /\ probe = [op |-> "start"]
    /\ staging = <<>>
    /\ listing = <<>>

NextUpdate ==
    \/ /\ \A r \in 1..Len(sheet) : sheet[r].bidId # "BID-T1"
       /\ Len(sheet) < MaxRows
       /\ onFormSubmit("BID-T1", "Janitorial", 0, 0, "")
    \/ /\ \A r \in 1..Len(sheet) : sheet[r].bidId # "BID-2025-001"
       /\ Len(sheet) < MaxRows
       /\ createBid("", "Janitorial", "", FALSE, 2025)
    \/ \E id \in AskedIds, st \in SentStatuses : updateBidStatus_(id, st)
    \/ \E id \in AskedIds, n \in SentNotes : updateBidNotes(id, n)
    \/ \E id \in AskedIds, a \in BOOLEAN : updateBidArchive(id, a)
    \/ \E id \in AskedIds, def \in PutBodies, st \in SentStatuses, n \in SentNotes :
          PUT(id, def, st, n, TRUE)
    \/ \E id \in AskedIds : GET(id)
    \/ \E fails \in FailChoices({"none"}) : RunPass("syncAll", fails) /\ UNCHANGED passes
    \/ PassReturn

SpecUpdate == InitUpdate /\ [][NextUpdate]_vars

\* a step of SpecUpdate that is a call of the web API on an existing sheet:
\* no pass step, no row appended
ApiStep == pc = "idle" /\ pc' = "idle" /\ Len(sheet') = Len(sheet)

\* the rows whose trimmed id is the trimmed id
RowsWithId(sh, bidId) == {r \in 1..Len(sh) : Trim(sh[r].bidId) = Trim(bidId)}

\* between sheet and sheet', only the cells of column c in the rows of id
\* bidId differ
OnlyColumn(c, bidId) ==
    \A r \in 1..Len(sheet) :
        IF r \in RowsWithId(sheet, bidId)
        THEN \A k \in Columns \ {c} : sheet'[r][k] = sheet[r][k]
        ELSE sheet'[r] = sheet[r]

\* C16: an update that supplies only notes changes only the notes cell of
\* the bid's row, one that supplies only status or only archived changes
\* only its status cell (the archived flag is the status Archived); this for
\* PUT, updateBidNotes, updateBidArchive and updateBidStatus_
C16_PartialUpdate ==
    [][ApiStep =>
        /\ (probe'.op \in {"PUT", "updateBidNotes", "updateBidArchive"}
            /\ probe'.updates.def = {"notes"}) => OnlyColumn("notes", probe'.bidId)
        /\ (probe'.op \in {"PUT", "updateBidNotes", "updateBidArchive"}
            /\ probe'.updates.def \in {{"status"}, {"archived"}})
              => OnlyColumn("status", probe'.bidId)
        /\ probe'.op = "updateBidStatus_" => OnlyColumn("status", probe'.bidId)]_vars

\* the statuses of the legacy schema only, and of the new schema only
C18_LegacyOnly == {"Open", "Walkthrough Scheduled", "In Progress", "No Bid", "On Hold"}
C18_NewOnly == {"New", "Reviewing", "Archived"}

\* C18: the sheet never holds a legacy-only status and a new-schema-only
\* status together
C18_SingleEnum ==
    ~ \E i, j \in 1..Len(sheet) :
          sheet[i].status \in C18_LegacyOnly /\ sheet[j].status \in C18_NewOnly

\* C20: a fetch or update of an id that no row has returns not found (null
\* and 404 from GET and PUT, null from updateBidNotes and updateBidArchive,
\* the error Bid not found from updateBidStatus_) and leaves the sheet as
\* it is
C20_NotFound ==
    [][(ApiStep /\ probe'.op # "start" /\ RowsWithId(sheet, probe'.bidId) = {}) =>
        /\ sheet' = sheet
        /\ probe'.op \in {"GET", "PUT"} => ~probe'.found /\ probe'.http = 404
        /\ probe'.op \in {"updateBidNotes", "updateBidArchive"} => ~probe'.found
        /\ probe'.op = "updateBidStatus_" => probe'.error = "Bid not found"]_vars

\* an update of an id that no row has was answered with 404 while the sheet
\* had rows
C20_Witness ==
    /\ pc = "idle"
    /\ Len(sheet) = MaxRows
    /\ probe.op = "PUT"
    /\ probe.bidId = "BID-T9"
    /\ ~probe.found
    /\ probe.http = 404

---------------------------------------------------------------------------
(* SpecDecode: the two decoders of a stored status on their own.  Init     *)
(* draws what the sheet holds, an action decodes it as the server does     *)
(* (listBids, getBidById) or as the client does (fetchBids).               *)

DecodeStatuses == AllStatuses \cup PaddedStrings \cup {"", "Pending", "Cancelled"}
DecodeArchived == {"", "TRUE", "Y"}

InitDecode ==
    /\ sheet = <<>>
    /\ settings = DefaultSettings
    /\ pc = "idle"
    /\ ctx = NoCtx
    /\ made = [k \in Kinds |-> [i \in 1..MaxRows |-> 0]]
    /\ calendar = {}
    /\ passes = 0
    /\ probe \in {[op |-> "stored", status |-> st, archived |-> a] :
                    st \in DecodeStatuses, a \in DecodeArchived}
    /\ staging = <<>>
    /\ listing = <<>>

\* normalizeStatus of sheets.js on the stored status
DecodeServer ==
    /\ probe.op = "stored"
    /\ probe' = [op |-> "server", in |-> probe.status,
                 out |-> normalizeStatus(probe.status)]
    /\ UNCHANGED <<sheet, settings, pc, ctx, made, calendar, passes, staging, listing>>

\* normalizeStatus and normalizeBid of the client on the stored status
DecodeClient ==
    /\ probe.op = "stored"
    /\ probe' = [op |-> "client", in |-> probe.status,
                 out |-> ClientNormalizeStatus(probe.status),
                 bid |-> ClientNormalizeBid([status |-> probe.status,
                                            archived |-> probe.archived])]
    /\ UNCHANGED <<sheet, settings, pc, ctx, made, calendar, passes, staging, listing>>

NextDecode == DecodeServer \/ DecodeClient

SpecDecode == InitDecode /\ [][NextDecode]_vars

\* the statuses the legacy mapping table names
C17_LegacyKeys == {"Open", "Walkthrough Scheduled", "In Progress", "No Bid", "On Hold"}

\* C17: each decoder maps No Bid to Lost and Walkthrough Scheduled to
\* Reviewing, maps an empty or unrecognized status to New and returns one
\* of the six statuses of the new schema
C17_LegacyMapping ==
    probe.op \in {"server", "client"} =>
        /\ probe.out \in NewStatuses
        /\ Trim(probe.in) = "No Bid" => probe.out = "Lost"
        /\ Trim(probe.in) = "Walkthrough Scheduled" => probe.out = "Reviewing"
        /\ Trim(probe.in) \notin NewStatuses \cup C17_LegacyKeys => probe.out = "New"

\* C19: a syncAll pass skips a row exactly when the row is blank or the bid
\* read from it has neither id nor name
C19_SkipsOnlyBoth ==
    SyncAllDone =>
        \A r \in RowsOfPass :
            ctx.log[r].outcome = "skipped"
                <=> (isRowBlank_(ctx.values[r])
                     \/ (ReadOf(r).bidId = "" /\ ReadOf(r).bidName = ""))

---------------------------------------------------------------------------
(* SpecRetry: one bid under the time trigger of syncAll.  A pass may meet  *)
(* an external call that raises (at most MaxPasses - 1 such passes); a     *)
(* pass that has written returns.                                          *)

\* a syncAll pass in which an external call raises for some row
FailingPass ==
    /\ passes < MaxPasses - 1
    /\ \E fails \in FailChoices(FailPoints \ {"none"}) : RunPass("syncAll", fails)
    /\ passes' = passes + 1

\* a syncAll pass whose external calls all succeed
GoodPass ==
    /\ \E fails \in FailChoices({"none"}) : RunPass("syncAll", fails)
    /\ UNCHANGED passes

InitRetry ==
    /\ sheet = <<>>
    /\ settings = DefaultSettings
    /\ pc = "idle"
    /\ ctx = NoCtx
    /\ made = [k \in Kinds |-> [i \in 1..MaxRows |-> 0]]
    /\ calendar = {}
    /\ passes = 0
    /\ probe = NoProbe
    /\ staging = <<>>
    /\ listing = <<>>

NextRetry ==
    \/ /\ sheet = <<>>
       /\ \E due \in FormDates, walk \in FormDates, rfp \in FormRfpSources :
             onFormSubmit("BID-T1", "Janitorial", due, walk, rfp)
    \/ FailingPass
    \/ GoodPass
    \/ PassReturn

SpecRetry == InitRetry /\ [][NextRetry]_vars /\ WF_vars(PassReturn)

\* a syncAll pass has just ended in which the bid's row raised
RowFailed ==
    /\ SyncAllDone
    /\ Len(ctx.log) = 1
    /\ ctx.log[1].outcome = "threw"

\* the bid's row holds the fingerprint of its fields and an event id for
\* each of its valid dates
RowConsistent ==
    /\ Len(sheet) = 1
    /\ sheet[1].lastHash = computeHash_(readBidRow_(sheet[1]))
    /\ isValidDate_(sheet[1].dueDate) => Truthy(sheet[1].dueEventId)
    /\ isValidDate_(sheet[1].walkDateTime) => Truthy(sheet[1].walkEventId)

\* a syncAll pass has just ended in which no call for the bid's row raised
RowSucceeded ==
    /\ SyncAllDone
    /\ Len(ctx.log) = 1
    /\ ctx.log[1].outcome = "written"

\* C21: a row that raised in a pass is left as the pass read it (the pass
\* does not try it again), and if syncAll is scheduled again and again and
\* passes whose calls succeed keep coming, the row is eventually written
\* back with lastHash the fingerprint of its fields and an event id for
\* each valid date
C21_EventuallyConsistent ==
    /\ [](RowFailed => sheet[1] = ctx.values[1])
    /\ ([]<>RowSucceeded) => (RowFailed ~> RowConsistent)

\* after a pass that raised, the row is consistent and has its two events
C21_Witness ==
    /\ passes >= 1
    /\ pc = "done"
    /\ RowConsistent
    /\ Truthy(sheet[1].dueEventId)
    /\ Truthy(sheet[1].walkEventId)
    /\ Truthy(sheet[1].rfpInFolderUrl)

---------------------------------------------------------------------------
(* ROW CODEC of sheets.js: normalizeRow, toRowValues and normalizeBid on   *)
(* JavaScript values.  A value is its type and its content; a cell of the  *)
(* values array is a string.                                               *)

JsUndefined == [type |-> "undefined", val |-> ""]
JsString(s) == [type |-> "string", val |-> s]
JsBoolean(b) == [type |-> "boolean", val |-> b]
JsNumber(n) == [type |-> "number", val |-> n]

\* the values that are false in a condition and give way in v || d
Falsy(v) ==
    \/ v.type = "undefined"
    \/ v.type = "string" /\ v.val = ""
    \/ v.type = "boolean" /\ ~v.val
    \/ v.type = "number" /\ v.val = 0

\* v || d
OrElse(v, d) == IF Falsy(v) THEN d ELSE v

\* String(v)
JsToString(v) ==
    CASE v.type = "string" -> v.val
      [] v.type = "number" -> ToString(v.val)
      [] v.type = "boolean" -> (IF v.val THEN "true" ELSE "false")
      [] OTHER -> "undefined"

\* String.prototype.toLowerCase on the strings of the model
ToLowerCase(s) ==
    CASE s = "TRUE" -> "true"
      [] s = "FALSE" -> "false"
      [] s = "Y" -> "y"
      [] OTHER -> s

\* COLUMNS: the keys of a bid in the order of columns A-U (bidUrl,
\* rfpFileUrl and moveRfp under the names of the columns D, K and L)
COLUMNS ==
    <<"bidId", "bidName", "client", "postingUrl", "dueDate", "walkDateTime",
      "walkLocation", "ownerName", "ownerEmail", "status", "rfpSource",
      "rfpAttachYN", "driveFolderUrl", "rfpInFolderUrl", "draftUrl", "finalUrl",
      "notes", "dueEventId", "walkEventId", "lastHash", "notified">>

\* COLUMN_INDEX[key], counted from 1
COLUMN_INDEX(key) == CHOOSE i \in 1..Len(COLUMNS) : COLUMNS[i] = key

\* the keys of a bid object: the 21 columns and archived
BidKeys == Columns \cup {"archived"}

\* normalizeRow with the cell of each column taken one place to the right
normalizeRow_NextCell(values) ==
    [key \in BidKeys |->
        IF key \in Columns /\ COLUMN_INDEX(key) + 1 <= Len(values)
        THEN JsString(values[COLUMN_INDEX(key) + 1])
        ELSE IF key \in Columns THEN JsString("") ELSE JsUndefined]

\* normalizeRow(values): row[key] = values[index] ?? ''; the object has no
\* archived key, reading it gives undefined
normalizeRow(values) ==
    [key \in BidKeys |->
        IF key \in Columns /\ COLUMN_INDEX(key) <= Len(values)
        THEN JsString(values[COLUMN_INDEX(key)])
        ELSE IF key \in Columns THEN JsString("") ELSE JsUndefined]

\* one cell of toRowValues
ToCell(val) ==
    IF val.type = "undefined" THEN ""
    ELSE IF val.type = "boolean" THEN (IF val.val THEN "TRUE" ELSE "FALSE")
    ELSE JsToString(val)

\* toRowValues(bid): the 21 cells in the order of COLUMNS
toRowValues(bid) == [i \in 1..Len(COLUMNS) |-> ToCell(bid[COLUMNS[i]])]

\* toBoolean(value)
toBoolean(value) ==
    IF value.type = "boolean" THEN value.val
    ELSE ToLowerCase(Trim(JsToString(OrElse(value, JsString(""))))) \in {"true", "1", "y", "yes"}

\* normalizeStatus(status) on a JavaScript value: String(status || '').trim()
NormalizeStatusOf(status) == normalizeStatus(JsToString(OrElse(status, JsString(""))))

\* normalizeBid(raw) on an object: {...raw, status, archived, notes: raw.notes || ''}
NormalizeRawBid(raw) ==
    [raw EXCEPT !.status = JsString(NormalizeStatusOf(raw.status)),
                !.archived = JsBoolean(NormalizeStatusOf(raw.status) = "Archived"
                                       \/ toBoolean(raw.archived)),
                !.notes = OrElse(raw.notes, JsString(""))]

\* normalizeBid(normalizeRow(toRowValues(bid)))
RoundTrip(bid) == NormalizeRawBid(normalizeRow(toRowValues(bid)))

\* createBid(input): the object literal it passes to normalizeBid, with the
\* id buildNextBidId gives when the input has none
CreateBidObject(input) ==
    [key \in BidKeys |->
        IF key = "archived" THEN JsUndefined
        ELSE IF key = "bidId" THEN OrElse(input[key], JsString("BID-2025-001"))
        ELSE IF key = "bidName" THEN OrElse(input[key], JsString("Untitled Bid"))
        ELSE IF key = "status"
             THEN (IF ~Falsy(input.archived) THEN JsString("Archived")
                   ELSE JsString(NormalizeStatusOf(OrElse(input.status, JsString("New")))))
        ELSE OrElse(input[key], JsString(""))]

\* the value of a key of the updates object
UpdateValue(u, key) ==
    IF key \notin u.def THEN JsUndefined
    ELSE IF key = "status" THEN JsString(u.status)
    ELSE IF key = "notes" THEN JsString(u.notes)
    ELSE JsBoolean(u.archived)

\* {...found.bid, ...updates}
Spread(found, u) ==
    [key \in BidKeys |-> IF key \in u.keys THEN UpdateValue(u, key) ELSE found[key]]

\* updateBidById: merged after the status branch
MergeStatus(merged, u) ==
    IF "status" \in u.keys
    THEN [merged EXCEPT !.status = JsString(NormalizeStatusOf(UpdateValue(u, "status")))]
    ELSE merged

\* updateBidById: merged after the archived branch
MergeArchivedKey(merged, u) ==
    IF "archived" \in u.keys
    THEN [merged EXCEPT !.status =
            IF toBoolean(UpdateValue(u, "archived")) THEN JsString("Archived")
            ELSE JsString(NormalizeStatusOf(IF @ = JsString("Archived")
                                            THEN JsString("Reviewing") ELSE @))]
    ELSE merged

\* updateBidById: the object it writes and passes to normalizeBid
MergedObject(found, u) == MergeArchivedKey(MergeStatus(Spread(found, u), u), u)

---------------------------------------------------------------------------
(* SpecCodec: the row codec on its own.  Init draws an object that         *)
(* listBids and getBidById, createBid or updateBidById pass to             *)
(* normalizeBid; one action decodes it, one encodes the bid and decodes    *)
(* the cells again.                                                        *)

\* the cells the Sheets API returns for a row: it leaves out the empty
\* cells at the end, so a row has len cells
CodecLengths == {9, 17, 21}
CodecNotes == {"", "call back"}
CodecCells(status, notes, len) ==
    [i \in 1..len |->
        IF i = COLUMN_INDEX("bidId") THEN "BID-T1"
        ELSE IF i = COLUMN_INDEX("bidName") THEN "Janitorial"
        ELSE IF i = COLUMN_INDEX("status") THEN status
        ELSE IF i = COLUMN_INDEX("notes") THEN notes
        ELSE IF i = COLUMN_INDEX("notified") THEN CheckMark
        ELSE ""]

\* the bodies of POST /api/bids
CreateNames == {JsUndefined, JsString("Janitorial")}
CreateStatuses == {JsUndefined, JsString("Won"), JsString(" Open")}
CreateArchived == {JsUndefined, JsBoolean(TRUE), JsString("yes")}
CreateNotes == {JsUndefined, JsString("call back"), JsNumber(7)}
CreateNotified == {JsUndefined, JsBoolean(TRUE)}
CreateInput(bidName, status, archived, notes, notified) ==
    [key \in BidKeys |->
        CASE key = "bidName" -> bidName
          [] key = "status" -> status
          [] key = "archived" -> archived
          [] key = "notes" -> notes
          [] key = "notified" -> notified
          [] OTHER -> JsUndefined]

\* the updates objects of PUT, updateBidArchive and updateBidNotes
CodecUpdates ==
    {Updates({"status", "notes", "archived"}, def, "Won", "call back", a) :
        def \in PutBodies, a \in BOOLEAN}
    \cup {Updates({"archived"}, {"archived"}, "", "", a) : a \in BOOLEAN}
    \cup {Updates({"notes"}, {"notes"}, "", "call back", FALSE)}

\* the statuses of the row an update finds
FoundStatuses == {"Archived", "Won", "Open"}

CodecRaws ==
    {[op |-> "raw", via |-> "getAllRows", raw |-> normalizeRow(CodecCells(st, n, len))] :
        st \in DecodeStatuses, n \in CodecNotes, len \in CodecLengths}
    \cup {[op |-> "raw", via |-> "createBid",
           raw |-> CreateBidObject(CreateInput(bn, st, a, n, nf))] :
        bn \in CreateNames, st \in CreateStatuses, a \in CreateArchived,
        n \in CreateNotes, nf \in CreateNotified}
    \cup {[op |-> "raw", via |-> "updateBidById",
           raw |-> MergedObject(NormalizeRawBid(normalizeRow(CodecCells(st, "", 21))), u)] :
        st \in FoundStatuses, u \in CodecUpdates}

InitCodec ==
    /\ sheet = <<>>
    /\ settings = DefaultSettings
    /\ pc = "idle"
    /\ ctx = NoCtx
    /\ made = [k \in Kinds |-> [i \in 1..MaxRows |-> 0]]
    /\ calendar = {}
    /\ passes = 0
    /\ probe \in CodecRaws
    /\ staging = <<>>
    /\ listing = <<>>

\* normalizeBid(raw)
Decode ==
    /\ probe.op = "raw"
    /\ probe' = [op |-> "bid", via |-> probe.via, bid |-> NormalizeRawBid(probe.raw)]
    /\ UNCHANGED <<sheet, settings, pc, ctx, made, calendar, passes, staging, listing>>

\* toRowValues(bid), then normalizeBid(normalizeRow(cells))
EncodeDecode ==
    /\ probe.op = "bid"
    /\ probe' = [op |-> "round", via |-> probe.via, bid |-> probe.bid,
                 cells |-> toRowValues(probe.bid), again |-> RoundTrip(probe.bid)]
    /\ UNCHANGED <<sheet, settings, pc, ctx, made, calendar, passes, staging, listing>>

NextCodec == Decode \/ EncodeDecode

SpecCodec == InitCodec /\ [][NextCodec]_vars

\* C22 as stated: for every bid normalizeBid produces, decoding the row
\* toRowValues produces for it gives a bid equal to it in the 21 column
\* fields and in the archived flag
C22_RoundTrip ==
    probe.op = "round" => \A key \in BidKeys : probe.again[key] = probe.bid[key]

\* every column field of the bid is a string
TextFields(bid) == \A key \in Columns : bid[key].type = "string"

\* C22, amended: the round trip gives an equal bid for every bid normalizeBid
\* produces whose 21 column fields are strings (a decoded row, a bid
\* updateBidById merged for PUT, updateBidArchive or updateBidNotes, a bid
\* createBid made from text)
C22_RoundTripText ==
    (probe.op = "round" /\ TextFields(probe.bid)) =>
        \A key \in BidKeys : probe.again[key] = probe.bid[key]

\* an archived bid that updateBidById merged came back equal from the cells
C22_Witness ==
    /\ probe.op = "round"
    /\ probe.via = "updateBidById"
    /\ TextFields(probe.bid)
    /\ probe.bid.archived = JsBoolean(TRUE)
    /\ probe.cells[COLUMN_INDEX("status")] = "Archived"
    /\ probe.again = probe.bid

---------------------------------------------------------------------------
(* SpecAttach: attachRfpIfRequested_ on its own.  Init draws a bid and the *)
(* RFP_ACTION setting; the action calls the function and keeps the bid it  *)
(* leaves and the folders that hold the source file afterwards.            *)

\* Folder.addFile(child): the folder becomes a parent of the file.  The
\* documented behaviour keeps the parents the file has; a Drive in which an
\* item has one parent leaves the folder as the only one.
addFile(parents, folder, oneParent) ==
    IF oneParent THEN {folder} ELSE parents \cup {folder}

\* the folders that hold the source file after attachRfpIfRequested_: it is
\* in its origin before; MOVE calls folder.addFile(srcFile), COPY makes a
\* copy and leaves the source
SourceParents(e, stg, fail, oneParent) ==
    IF e.threw \/ e.bid.rfpSource = "" \/ e.bid.rfpAttachYN # "Y"
       \/ ~Truthy(e.bid.driveFolderUrl) \/ Truthy(e.bid.rfpInFolderUrl)
    THEN {"origin"}
    ELSE IF fail = "rfp" THEN {"origin"}
    ELSE IF stg.RFP_ACTION = "MOVE" THEN addFile({"origin"}, "bid folder", oneParent)
    ELSE {"origin"}

AttachActions == {"COPY", "MOVE"}
AttachYN == {"Y", "N", ""}
AttachFolders == {0, 1}
AttachRefs == {0, -2}

\* the bids attachRfpIfRequested_ is called with
AttachBids ==
    {[EmptyRow EXCEPT !.bidId = "BID-T1", !.bidName = "Janitorial",
                      !.status = "Open", !.dueDate = due, !.rfpSource = src,
                      !.rfpAttachYN = yn, !.driveFolderUrl = folder,
                      !.rfpInFolderUrl = ref] :
        due \in FormDates, src \in FormRfpSources, yn \in AttachYN,
        folder \in AttachFolders, ref \in AttachRefs}

InitAttach ==
    /\ sheet = <<>>
    /\ settings = DefaultSettings
    /\ pc = "idle"
    /\ ctx = NoCtx
    /\ made = [k \in Kinds |-> [i \in 1..MaxRows |-> 0]]
    /\ calendar = {}
    /\ passes = 0
    /\ probe \in {[op |-> "bid", bid |-> b,
                   stg |-> [DefaultSettings EXCEPT !.RFP_ACTION = a]] :
                    b \in AttachBids, a \in AttachActions}
    /\ staging = <<>>
    /\ listing = <<>>

\* attachRfpIfRequested_(ctx, bid), the Drive call raising or not
AttachRfp ==
    /\ probe.op = "bid"
    /\ \E fail \in {"none", "rfp"}, oneParent \in BOOLEAN :
          probe' = [op |-> "attached", before |-> probe.bid, stg |-> probe.stg,
                    fail |-> fail,
                    after |-> attachRfpIfRequested_(
                                 StartRow(probe.bid, made, calendar), 1, probe.stg, fail),
                    parents |-> SourceParents(StartRow(probe.bid, made, calendar),
                                              probe.stg, fail, oneParent)]
    /\ UNCHANGED <<sheet, settings, pc, ctx, made, calendar, passes, staging, listing>>

NextAttach == AttachRfp

SpecAttach == InitAttach /\ [][NextAttach]_vars

\* the call changed the bid or touched Drive
AttachActed ==
    \/ probe.after.bid # probe.before
    \/ probe.after.made # made
    \/ probe.parents # {"origin"}

\* C23: attachRfpIfRequested_ acts only when rfpAttachYN is Y, rfpSource is
\* non-empty, the folder ref exists and rfpInFolderUrl is empty; under MOVE
\* the source file ends up in the bid folder and no longer in its origin,
\* under COPY the source is left where it was and rfpInFolderUrl references
\* the new copy
C23_AttachRfp ==
    probe.op = "attached" =>
        /\ AttachActed =>
              /\ probe.before.rfpAttachYN = "Y"
              /\ probe.before.rfpSource # ""
              /\ Truthy(probe.before.driveFolderUrl)
              /\ ~Truthy(probe.before.rfpInFolderUrl)
        /\ (AttachActed /\ probe.stg.RFP_ACTION = "MOVE") =>
              probe.parents = {"bid folder"}
        /\ (AttachActed /\ probe.stg.RFP_ACTION = "COPY") =>
              /\ probe.parents = {"origin"}
              /\ probe.after.bid.rfpInFolderUrl = probe.after.made["rfp"][1]
              /\ probe.after.made["rfp"][1] = made["rfp"][1] + 1

---------------------------------------------------------------------------
(* SpecConverge: one row in any state, then syncAll passes one after the   *)
(* other with no edit in between and no external call that raises.         *)
(* passes counts the passes that have run.                                 *)

ConvergeStatuses == {"Open", " Open", "Won", "Submitted"}
ConvergeRefs == {0, -1}
ConvergeHashes == {<<>>, <<"stale">>}

\* the row states: any status, dates, refs, event id, fingerprint and mark
ConvergeRows ==
    {[EmptyRow EXCEPT !.bidId = "BID-T1", !.bidName = "Janitorial",
                      !.status = s, !.dueDate = due, !.walkDateTime = walk,
                      !.rfpSource = "rfp-file", !.rfpAttachYN = "Y",
                      !.driveFolderUrl = folder, !.draftUrl = draft,
                      !.finalUrl = final, !.dueEventId = ev,
                      !.lastHash = h, !.notified = n] :
        s \in ConvergeStatuses, due \in FormDates, walk \in FormDates,
        folder \in ConvergeRefs, draft \in ConvergeRefs, final \in ConvergeRefs,
        ev \in ConvergeRefs, h \in ConvergeHashes, n \in {"", CheckMark}}

\* the settings: new-bid notifications on, the rest as in SettingsInputs
ConvergeSettings == {x \in SettingsInputs : x.NOTIFY_ON_NEW_BID = "TRUE"}

InitConverge ==
    /\ sheet \in {<<row>> : row \in ConvergeRows}
    /\ settings \in ConvergeSettings
    /\ pc = "idle"
    /\ ctx = NoCtx
    /\ made = [k \in Kinds |-> [i \in 1..MaxRows |-> 0]]
    /\ calendar = {}
    /\ passes = 0
    /\ probe = NoProbe
    /\ staging = <<>>
    /\ listing = <<>>

\* the next syncAll pass, no call raising
ConvergePass ==
    /\ passes < MaxPasses + 1
    /\ \E fails \in FailChoices({"none"}) : RunPass("syncAll", fails)
    /\ passes' = passes + 1

NextConverge == ConvergePass \/ PassReturn

SpecConverge == InitConverge /\ [][NextConverge]_vars

\* C24: from any row state, with no edit and no failing call, two syncAll
\* passes bring the row to a fixed point: every later pass leaves all cells
\* of the row as they are, makes no calendar call for it and emits no
\* notification for it
C24_Converges ==
    (SyncAllDone /\ passes > 2) =>
        /\ sheet = ctx.values
        /\ \A r \in RowsOfPass :
              ctx.log[r].outcome = "written" =>
                  /\ ~ctx.log[r].calCalled
                  /\ ctx.log[r].calOps = {}
                  /\ ~ctx.log[r].new
                  /\ ~ctx.log[r].upd

\* a third pass has run on a row for which the passes before created the
\* documents and the due event and turned the status to Submitted
C24_Witness ==
    /\ SyncAllDone
    /\ passes = 3
    /\ ctx.log[1].outcome = "written"
    /\ sheet[1].status = "Submitted"
    /\ sheet[1].finalUrl = 1
    /\ sheet[1].dueEventId = 1
    /\ sheet[1].notified = CheckMark


---------------------------------------------------------------------------
(* Placeholder documents and the status *)

\* C25: with the default settings a bid the form created with status Open,
\* for which no user supplied a draft or a final document, keeps a status
\* of Open or Walkthrough Scheduled over any number of syncAll passes in
\* which nobody edits the row
C25_PlaceholdersKeepStatus ==
    \A r \in 1..Len(sheet) : sheet[r].status \in {"Open", "Walkthrough Scheduled"}


---------------------------------------------------------------------------
(* SpecInterleave: a syncAll pass in its two steps, the read of the sheet  *)
(* (getContext_) and the loop with the write-back, and updateBidById in    *)
(* its two steps, getBidById and writeRow.  No lock is taken by either     *)
(* side, so the calls of the web APIs run between the steps of a pass.     *)
(* probe keeps the last API call: the step of the pass during which it ran *)
(* (during) and the number of that pass (pass).                            *)

\* getContext_(): the pass reads the sheet and the settings
GetContext ==
    /\ pc = "idle"
    /\ Len(sheet) > 0
    /\ passes < MaxPasses
    /\ \A k \in Kinds : \A i \in 1..MaxRows : made[k][i] < MaxMade
    /\ pc' = "read"
    /\ ctx' = [NoCtx EXCEPT !.mode = "syncAll", !.values = sheet,
                            !.settings = settings]
    /\ passes' = passes + 1
    /\ UNCHANGED <<sheet, settings, made, calendar, probe, staging, listing>>

\* what the loop and batchWriteBack_ leave: the updates are written to the
\* sheet as it is now
WriteBackEffect(st) ==
    /\ sheet' = batchWriteBack_(sheet, st.updates)
    /\ made' = st.made
    /\ calendar' = st.calendar
    /\ ctx' = [ctx EXCEPT !.updates = st.updates, !.newBids = st.newBids,
                          !.updatedBids = st.updatedBids, !.log = st.log]

\* the loop of syncAll over the values it read, then batchWriteBack_
LoopAndWriteBack ==
    /\ pc = "read"
    /\ WriteBackEffect(Loop("syncAll", ctx.values, ctx.settings,
                            [r \in 1..Len(ctx.values) |-> "none"], 1,
                            StartLoop(made, calendar)))
    /\ pc' = "done"
    /\ UNCHANGED <<settings, passes, probe, staging, listing>>

\* updateBidStatus_(ss, bidId, newStatus), at any step of a pass
StatusCall(bidId, newStatus) ==
    /\ sheet' = StatusWritten(sheet, bidId, newStatus)
    /\ probe' = [op |-> "updateBidStatus_", bidId |-> bidId,
                 newStatus |-> Trim(newStatus), found |-> FindRow(sheet, bidId) # 0,
                 during |-> pc, pass |-> passes]
    /\ UNCHANGED <<settings, pc, ctx, made, calendar, passes, staging, listing>>

\* updateBidById: getBidById(bidId) has returned the row
FoundBid(bidId, u) ==
    /\ probe.op # "found"
    /\ FindRow(sheet, bidId) # 0
    /\ probe' = [op |-> "found", bidId |-> bidId, u |-> u,
                 row |-> FindRow(sheet, bidId),
                 cells |-> sheet[FindRow(sheet, bidId)],
                 during |-> pc, pass |-> passes]
    /\ UNCHANGED <<sheet, settings, pc, ctx, made, calendar, passes, staging, listing>>

\* updateBidById: writeRow(found.rowIndex, merged) writes columns A-U
WriteRow ==
    /\ probe.op = "found"
    /\ sheet' = [sheet EXCEPT ![probe.row] = MergedBid(probe.cells, probe.u)]
    /\ probe' = [op |-> "writeRow", bidId |-> probe.bidId, u |-> probe.u,
                 row |-> probe.row, readDuring |-> probe.during,
                 during |-> pc, pass |-> probe.pass]
    /\ UNCHANGED <<settings, pc, ctx, made, calendar, passes, staging, listing>>

\* the statuses updateBidStatus_ is sent, the updates updateBidById is sent
InterleaveStatuses == {"Won", "On Hold"}
InterleaveUpdates ==
    {Updates({"notes"}, {"notes"}, "", "call back", FALSE),
     Updates({"archived"}, {"archived"}, "", "", TRUE)}

InitInterleave ==
    /\ sheet = <<>>
    /\ settings = DefaultSettings
    /\ pc = "idle"
    /\ ctx = NoCtx
    /\ made = [k \in Kinds |-> [i \in 1..MaxRows |-> 0]]
    /\ calendar = {}
    /\ passes = 0
    /\ probe = [op |-> "start"]
    /\ staging = <<>>
    /\ listing = <<>>

NextInterleave ==
    \/ /\ sheet = <<>>
       /\ \E due \in FormDates : onFormSubmit("BID-T1", "Janitorial", due, 0, "")
    \/ GetContext
    \/ LoopAndWriteBack
    \/ PassReturn
    \/ \E st \in InterleaveStatuses : StatusCall("BID-T1", st)
    \/ \E u \in InterleaveUpdates : FoundBid("BID-T1", u)
    \/ WriteRow

SpecInterleave == InitInterleave /\ [][NextInterleave]_vars

\* C26: a status updateBidStatus_ wrote between the read of a syncAll pass
\* and its write-back is not lost: when the pass ends, the row's status is
\* the status the user set or the one the status rules derive from it
C26_StatusNotLost ==
    (SyncAllDone /\ probe.op = "updateBidStatus_" /\ probe.found
     /\ probe.during = "read" /\ probe.pass = passes) =>
        sheet[1].status \in
            {probe.newStatus,
             applyAutoStatus_([readBidRow_(sheet[1]) EXCEPT !.status = probe.newStatus]).status}

\* the columns a pass stores for a bid
StoredColumns ==
    {"driveFolderUrl", "rfpInFolderUrl", "draftUrl", "finalUrl",
     "dueEventId", "walkEventId", "lastHash", "notified"}

\* C27: when an update through updateBidById interleaves with a syncAll
\* pass on the same bid, the values the pass stored for the bid are still in
\* the row once both have completed
C27_StoredValuesKept ==
    (SyncAllDone /\ probe.op = "writeRow" /\ probe.pass = passes) =>
        \A r \in RowsOfPass :
            IsWritten(r) => \A c \in StoredColumns : sheet[r][c] = UpdateOf(r)[c]


---------------------------------------------------------------------------
(* SpecOps: one bid under every operation that touches its row, one after  *)
(* the other: the form, the three passes (a calendar call may raise), the  *)
(* status and notes updates of the web APIs, and a user who types a due    *)
(* date into the empty cell of column E.                                   *)

OpsFailPoints == {"none", "due"}
OpsStatuses == {"Won", "Open"}

\* new-bid notifications on, the rest as in SettingsInputs
OpsSettings == {x \in SettingsInputs : x.NOTIFY_ON_NEW_BID = "TRUE"}

\* a user types a due date into the empty cell E of the row
EditDueDate ==
    /\ pc = "idle"
    /\ Len(sheet) = 1
    /\ sheet[1].dueDate = 0
    /\ sheet' = [sheet EXCEPT ![1].dueDate = 5000]
    /\ UNCHANGED <<settings, pc, ctx, made, calendar, passes, probe, staging, listing>>

InitOps ==
    /\ sheet = <<>>
    /\ settings \in OpsSettings
    /\ pc = "idle"
    /\ ctx = NoCtx
    /\ made = [k \in Kinds |-> [i \in 1..MaxRows |-> 0]]
    /\ calendar = {}
    /\ passes = 0
    /\ probe = NoProbe
    /\ staging = <<>>
    /\ listing = <<>>

NextOps ==
    \/ /\ sheet = <<>>
       /\ \E due \in FormDates, walk \in FormDates :
             onFormSubmit("BID-T1", "Janitorial", due, walk, "")
    \/ \E fails \in FailChoices(OpsFailPoints) : RunPass("syncAll", fails) /\ UNCHANGED passes
    \/ \E fails \in FailChoices(OpsFailPoints) : RunPass("driveOnly", fails) /\ UNCHANGED passes
    \/ \E fails \in FailChoices(OpsFailPoints) : RunPass("calendarOnly", fails) /\ UNCHANGED passes
    \/ PassReturn
    \/ \E st \in OpsStatuses : updateBidStatus_("BID-T1", st)
    \/ \E n \in SentNotes : updateBidNotes("BID-T1", n)
    \/ EditDueDate

SpecOps == InitOps /\ [][NextOps]_vars

\* the step is a syncAll pass that puts row r in its new-bid notification
NotifiesRow(r) ==
    /\ pc = "idle"
    /\ pc' = "done"
    /\ ctx'.mode = "syncAll"
    /\ InList(ctx'.newBids, r)

\* C28: each bid is in a new-bid notification at most once: the pass that
\* notifies stores the mark in the row, no pass and no API update clears the
\* mark, and a row that carries the mark is not in a new-bid notification
C28_NotifiedOnce ==
    [][\A r \in 1..Len(sheet) :
          /\ NotifiesRow(r) => sheet'[r].notified = CheckMark
          /\ sheet[r].notified = CheckMark =>
                (sheet'[r].notified = CheckMark /\ ~NotifiesRow(r))]_vars

\* the marked bid has gone through a notes update and a later syncAll pass
\* that saw it changed, and was not notified again
C28_Witness ==
    /\ SyncAllDone
    /\ Len(ctx.values) = 1
    /\ ReadOf(1).notified = CheckMark
    /\ ReadOf(1).notes = "call back"
    /\ ctx.log[1].outcome = "written"
    /\ ctx.log[1].changed
    /\ ~InList(ctx.newBids, 1)
    /\ sheet[1].notified = CheckMark

\* the date the fingerprint of a row was taken with: fmtISO_ of dueDate is
\* its fifth field, of walkDateTime its sixth
HashDue(row) == row.lastHash[5]
HashWalk(row) == row.lastHash[6]

\* C29: a row that syncAll has written back while its dueDate was a valid
\* date has a dueEventId, one written back while its walkDateTime was a
\* valid date has a walkEventId; this in every state, and at the end of the
\* pass that writes the row
C29_DatedRowsHaveEvents ==
    /\ \A r \in 1..Len(sheet) :
          sheet[r].lastHash # <<>> =>
              /\ (isValidDate_(sheet[r].dueDate)
                  /\ HashDue(sheet[r]) = fmtISO_(sheet[r].dueDate))
                    => Truthy(sheet[r].dueEventId)
              /\ (isValidDate_(sheet[r].walkDateTime)
                  /\ HashWalk(sheet[r]) = fmtISO_(sheet[r].walkDateTime))
                    => Truthy(sheet[r].walkEventId)
    /\ SyncAllDone =>
          \A r \in RowsOfPass :
              IsWritten(r) =>
                  /\ isValidDate_(ReadOf(r).dueDate) => Truthy(sheet[r].dueEventId)
                  /\ isValidDate_(ReadOf(r).walkDateTime) => Truthy(sheet[r].walkEventId)

\* a bid synced without a due date got its date afterwards, and the pass
\* that has just ended gave it its event
C29_Witness ==
    /\ SyncAllDone
    /\ Len(ctx.values) = 1
    /\ ctx.log[1].outcome = "written"
    /\ ctx.values[1].lastHash # <<>>
    /\ HashDue(ctx.values[1]) = 0
    /\ ~Truthy(ctx.values[1].dueEventId)
    /\ isValidDate_(sheet[1].dueDate)
    /\ Truthy(sheet[1].dueEventId)


---------------------------------------------------------------------------
(* THE COMMBUYS FEED OF THE WEB APPLICATION *)
(* The feed route reads the newest JSON file of the feed directory; the    *)
(* CommBuysFeed component keeps the entries it loaded and the numbers it   *)
(* hides.  In this part probe is the state of the component: bids, the     *)
(* entries loaded; hiddenIds; success, the outcome of its last request.    *)

\* an entry of the feed file with the fields normalizeBid of the route keeps
FeedEntry(number, description, url, due) ==
    [bid_number |-> number, description |-> description, agency |-> "",
     due_date |-> due, detail_url |-> url]

CustodialEntry == FeedEntry("CB-1", "Custodial services", "url-a", 5000)
WindowEntry == FeedEntry("CB-2", "Window cleaning", "url-c", 0)
UntitledEntry == FeedEntry("CB-3", "", "", 0)
NamelessEntry == FeedEntry("", "", "url-d", 0)

\* the newest file of the feed directory
FeedFiles ==
    {<<CustodialEntry, NamelessEntry, WindowEntry>>,
     <<CustodialEntry, WindowEntry, UntitledEntry>>}

\* GET /api/commbuys: the entries with a number or a description
FeedGet(file) ==
    SelectSeq(file, LAMBDA b : b.bid_number # "" \/ b.description # "")

\* mapBidToSheetsPayload(bid, defaultStatus), the notes cut after the number
mapBidToSheetsPayload(bid, defaultStatus) ==
    [bidName |-> IF bid.description # "" THEN bid.description ELSE "CommBuys Bid",
     client |-> IF bid.agency # "" THEN bid.agency ELSE "CommBuys",
     dueDate |-> bid.due_date,
     ownerName |-> "Craig",
     notes |-> "Imported from CommBuys\nBid #: "
                  \o (IF bid.bid_number # "" THEN bid.bid_number ELSE "N/A"),
     status |-> IF defaultStatus # "" THEN defaultStatus ELSE "New",
     bidUrl |-> bid.detail_url,
     rfpInFolderUrl |-> bid.detail_url]

\* the row createBid appends for a payload of the approve route
ApprovedRow(sh, payload, year) ==
    [CreateRow(CreateBidId(sh, "", year), payload.bidName, payload.status, FALSE)
        EXCEPT !.client = payload.client,
               !.postingUrl = payload.bidUrl,
               !.dueDate = payload.dueDate,
               !.ownerName = payload.ownerName,
               !.rfpInFolderUrl = IF payload.rfpInFolderUrl # "" THEN -1 ELSE 0,
               !.notes = payload.notes]

\* POST /api/commbuys/approve: the sheet after the request
ApprovePost(sh, hasBid, bid, status, year) ==
    IF ~hasBid THEN sh
    ELSE Append(sh, ApprovedRow(sh, mapBidToSheetsPayload(bid, IF status # "" THEN status ELSE "New"), year))

\* the year of the clock of the web server
ApproveYears == {2025}

\* the entries the component shows
Visible(i) ==
    /\ i \in 1..Len(probe.bids)
    /\ probe.bids[i].bid_number \notin probe.hiddenIds

\* the component is mounted: useState's initial values, then loadFeed
MountFeed(file) ==
    /\ probe' = [bids |-> FeedGet(file), hiddenIds |-> {}, success |-> TRUE]
    /\ probe' # probe
    /\ UNCHANGED <<sheet, settings, pc, ctx, made, calendar, passes, staging, listing>>

\* loadFeed(), from the Refresh button
loadFeed(file) ==
    /\ probe' = [probe EXCEPT !.bids = FeedGet(file), !.success = TRUE]
    /\ probe' # probe
    /\ UNCHANGED <<sheet, settings, pc, ctx, made, calendar, passes, staging, listing>>

\* onReject(bid)
onReject(i) ==
    /\ Visible(i)
    /\ probe' = [probe EXCEPT !.hiddenIds = @ \cup {probe.bids[i].bid_number}]
    /\ UNCHANGED <<sheet, settings, pc, ctx, made, calendar, passes, staging, listing>>

\* onApprove(bid): the request, then the entry is hidden
onApprove(i, year) ==
    /\ Visible(i)
    /\ Len(sheet) < MaxSeq
    /\ sheet' = ApprovePost(sheet, TRUE, probe.bids[i], "New", year)
    /\ probe' = [probe EXCEPT !.hiddenIds = @ \cup {probe.bids[i].bid_number},
                              !.success = TRUE]
    /\ UNCHANGED <<settings, pc, ctx, made, calendar, passes, staging, listing>>

\* a request to the approve route from another client
ApproveRequest(hasBid, bid, status, year) ==
    /\ Len(sheet) < MaxSeq
    /\ sheet' = ApprovePost(sheet, hasBid, bid, status, year)
    /\ probe' = [probe EXCEPT !.success = hasBid]
    /\ UNCHANGED <<settings, pc, ctx, made, calendar, passes, staging, listing>>

\* the entries and statuses of the requests of other clients
RequestEntries == {CustodialEntry, WindowEntry}
RequestStatuses == {"Won"}

InitApprove ==
    /\ sheet \in CommbuysSheets
    /\ settings = DefaultSettings
    /\ pc = "idle"
    /\ ctx = NoCtx
    /\ made = [k \in Kinds |-> [i \in 1..MaxRows |-> 0]]
    /\ calendar = {}
    /\ passes = 0
    /\ \E file \in FeedFiles :
          probe = [bids |-> FeedGet(file), hiddenIds |-> {}, success |-> TRUE]
    /\ staging = <<>>
    /\ listing = <<>>

NextApprove ==
    \/ \E file \in FeedFiles : MountFeed(file)
    \/ \E file \in FeedFiles : loadFeed(file)
    \/ \E i \in 1..3 : onReject(i)
    \/ \E i \in 1..3, year \in ApproveYears : onApprove(i, year)
    \/ \E hasBid \in BOOLEAN, bid \in RequestEntries, status \in RequestStatuses,
          year \in ApproveYears : ApproveRequest(hasBid, bid, status, year)

SpecApprove == InitApprove /\ [][NextApprove]_vars

\* C30: approving a feed entry creates at most one bid per entry: no two rows
\* of the Bids sheet have the same non-empty posting URL, so approving an
\* entry whose detail_url is the URL of an existing bid creates no row
C30_OneBidPerEntry ==
    \A r1, r2 \in 1..Len(sheet) :
        (r1 # r2 /\ sheet[r1].postingUrl # "")
            => sheet[r1].postingUrl # sheet[r2].postingUrl

=============================================================================
